---- MODULE Spec2Model ----
(***************************************************************************)
(* reIndexer: a zipline backtest of a portfolio of synthetic price-weighted*)
(* sector ETFs.  The model covers the calendar trigger scheduler           *)
(* (backtest/util.py), the orchestration of the per-bar handler            *)
(* (backtest/zipline_backtest.py), the synthetic ETF weights               *)
(* (synthetic_etf/price_weighted.py), the sector universe                  *)
(* (sector_universe/universe.py) and the bookkeeping record                *)
(* (backtest/bookkeeping.py).                                              *)
(*                                                                         *)
(* Two specifications:                                                     *)
(*   SpecSched  the Utilities object driven once per simulated day, in the *)
(*              order zipline_handle_data calls it, over 2015..EndYear;    *)
(*   Spec       the whole per-bar handler over the first MaxDays days.     *)
(***************************************************************************)
EXTENDS Integers, Sequences, FiniteSets, TLC

VARIABLES
    now,        \* get_datetime(): [y, m, d, wd], wd 0 = Monday .. 6 = Sunday
    config,     \* cfg.config: [restr |-> [day, week], reb |-> [day, week]]
    util,       \* context.util: the orchestrator's Utilities instance
    first_run,  \* context.first_run
    pc,         \* SpecSched: the next scheduler call of the current bar
    obs,        \* the latest trigger evaluation(s): what was called, what it returned
    seen,       \* history: per trigger kind, the latest in-window evaluation
    universe,   \* config.sector_universe: the Universe object
    can_trade,  \* the tickers zipline resolves and can trade
    synthetics, \* context.synthetics: sector label -> PriceWeightedETF
    port_w,     \* context.port_w: the optimizer's latest output
    port_weights, \* context.port_weights: sector label -> portfolio weight
    recorded,   \* zipline's recorded variables (forward-filled between bars)
    calls,      \* what the latest zipline_handle_data invocation called, in order
    halted,     \* the exception that ended the run, or "no"
    data        \* SpecETF, SpecBooks: the arguments of the operations called directly

schedVars == <<now, config, util, first_run, pc, obs, seen>>
mainVars == <<universe, can_trade, synthetics, port_w, port_weights,
              recorded, calls, halted, data>>
vars == <<now, config, util, first_run, pc, obs, seen, universe, can_trade,
          synthetics, port_w, port_weights, recorded, calls, halted, data>>

-----------------------------------------------------------------------------
(* Bounds of the model *)

\* last calendar year SpecSched walks through (the walk starts at StartYear)
EndYear == 2020
\* largest number of calendar days between two consecutive simulated bars
MaxGap == 3
\* largest week-of-month a drawn trigger spec names
MaxWeek == 5

\* the bars of Spec lie within this many days of the start date
MaxDays == 15
\* current prices are drawn from 1..MaxPrice
MaxPrice == 2
\* the optimizer's outputs are drawn from the multiples of 1/WeightSteps
WeightSteps == 2
\* the grid of the optimizer's random initial guess: entries are n/DirichletSteps
DirichletSteps == 4
\* the bars of a historical window
MaxBars == 3
\* the calls SpecUniverse makes on one Universe object
MaxCalls == 3

(* Program constants *)

\* cfg.py: backtest_start = 2015-01-01
StartYear == 2015

-----------------------------------------------------------------------------
(* The calendar: pd.Timestamp's day, month and weekday_name *)

WeekdayNames == <<"Monday", "Tuesday", "Wednesday", "Thursday", "Friday",
                  "Saturday", "Sunday">>

IsLeap(y) == (y % 4 = 0 /\ y % 100 # 0) \/ y % 400 = 0

DaysInMonth(y, m) ==
    IF m = 2 THEN (IF IsLeap(y) THEN 29 ELSE 28)
    ELSE IF m \in {4, 6, 9, 11} THEN 30 ELSE 31

\* 2015-01-01 was a Thursday
StartDate == [y |-> StartYear, m |-> 1, d |-> 1, wd |-> 3]

NextDay(t) ==
    LET w == (t.wd + 1) % 7 IN
    IF t.d < DaysInMonth(t.y, t.m)
        THEN [y |-> t.y, m |-> t.m, d |-> t.d + 1, wd |-> w]
    ELSE IF t.m < 12
        THEN [y |-> t.y, m |-> t.m + 1, d |-> 1, wd |-> w]
    ELSE [y |-> t.y + 1, m |-> 1, d |-> 1, wd |-> w]

RECURSIVE AddDays(_, _)
AddDays(t, n) == IF n = 0 THEN t ELSE AddDays(NextDay(t), n - 1)

weekday_name(t) == WeekdayNames[t.wd + 1]

PrevDay(t) ==
    LET w == (t.wd + 6) % 7 IN
    IF t.d > 1
        THEN [y |-> t.y, m |-> t.m, d |-> t.d - 1, wd |-> w]
    ELSE IF t.m > 1
        THEN [y |-> t.y, m |-> t.m - 1, d |-> DaysInMonth(t.y, t.m - 1), wd |-> w]
    ELSE [y |-> t.y - 1, m |-> 12, d |-> 31, wd |-> w]

RECURSIVE SubDays(_, _)
SubDays(t, n) == IF n = 0 THEN t ELSE SubDays(PrevDay(t), n - 1)

-----------------------------------------------------------------------------
(* backtest/util.py: Utilities *)

\* the trigger specs a configuration may hold: a weekday name or the wildcard
TriggerDays == {"*", "Friday"}
TriggerSpecs == [day : TriggerDays, week : 1..MaxWeek]

\* Utilities.__init__
UtilitiesInit(cfg) ==
    [restr_week_start |-> (cfg.restr.week - 1) * 7,
     restr_week_end |-> cfg.restr.week * 7,
     reb_week_start |-> (cfg.reb.week - 1) * 7,
     reb_week_end |-> cfg.reb.week * 7,
     last_month_restructure |-> 0,
     last_month_rebalance |-> 0]

\* mutant: the week window tested with <= at its lower end
isRestructureTriggered_LowerInclusive(u, cfg, current_date) ==
    IF u.restr_week_start <= current_date.d /\ current_date.d <= u.restr_week_end
    THEN LET is_triggered == weekday_name(current_date) = cfg.restr.day
             wildcard == cfg.restr.day = "*"
                         /\ u.last_month_restructure # current_date.m
         IN [ret |-> is_triggered \/ wildcard,
             util |-> IF wildcard
                      THEN [u EXCEPT !.last_month_restructure = current_date.m]
                      ELSE u]
    ELSE [ret |-> FALSE, util |-> u]

\* mutant: the wildcard branch writes the other kind's flag
isRestructureTriggered_WrongFlag(u, cfg, current_date) ==
    IF u.restr_week_start < current_date.d /\ current_date.d <= u.restr_week_end
    THEN LET is_triggered == weekday_name(current_date) = cfg.restr.day
             wildcard == cfg.restr.day = "*"
                         /\ u.last_month_restructure # current_date.m
         IN [ret |-> is_triggered \/ wildcard,
             util |-> IF wildcard
                      THEN [u EXCEPT !.last_month_rebalance = current_date.m]
                      ELSE u]
    ELSE [ret |-> FALSE, util |-> u]

\* Utilities.isRestructureTriggered: [ret, util]
isRestructureTriggered(u, cfg, current_date) ==
    IF u.restr_week_start < current_date.d /\ current_date.d <= u.restr_week_end
    THEN LET is_triggered == weekday_name(current_date) = cfg.restr.day
             wildcard == cfg.restr.day = "*"
                         /\ u.last_month_restructure # current_date.m
         IN [ret |-> is_triggered \/ wildcard,
             util |-> IF wildcard
                      THEN [u EXCEPT !.last_month_restructure = current_date.m]
                      ELSE u]
    ELSE [ret |-> FALSE, util |-> u]

\* mutant: the wildcard branch does not store the month it fired in
isRebalanceTriggered_NoFlagUpdate(u, cfg, current_date) ==
    IF u.reb_week_start < current_date.d /\ current_date.d <= u.reb_week_end
    THEN LET is_triggered == weekday_name(current_date) = cfg.reb.day
             wildcard == cfg.reb.day = "*"
                         /\ u.last_month_rebalance # current_date.m
         IN [ret |-> is_triggered \/ wildcard, util |-> u]
    ELSE [ret |-> FALSE, util |-> u]

\* Utilities.isRebalanceTriggered: [ret, util]
isRebalanceTriggered(u, cfg, current_date) ==
    IF u.reb_week_start < current_date.d /\ current_date.d <= u.reb_week_end
    THEN LET is_triggered == weekday_name(current_date) = cfg.reb.day
             wildcard == cfg.reb.day = "*"
                         /\ u.last_month_rebalance # current_date.m
         IN [ret |-> is_triggered \/ wildcard,
             util |-> IF wildcard
                      THEN [u EXCEPT !.last_month_rebalance = current_date.m]
                      ELSE u]
    ELSE [ret |-> FALSE, util |-> u]

\* mutant: only the rebalance trigger is primed
setInitialFlags_RebalanceOnly(u, cfg, current_date) ==
    LET reb == isRebalanceTriggered(u, cfg, current_date)
    IN [reb |-> reb.ret, restr |-> FALSE, util |-> reb.util]

\* Utilities.setInitialFlags: the rebalance trigger, then the restructure trigger
setInitialFlags(u, cfg, current_date) ==
    LET reb == isRebalanceTriggered(u, cfg, current_date)
        restr == isRestructureTriggered(reb.util, cfg, current_date)
    IN [reb |-> reb.ret, restr |-> restr.ret, util |-> restr.util]

-----------------------------------------------------------------------------
(* Arithmetic on weights and prices: non-negative rationals <<n, d>> in    *)
(* lowest terms stand for the floats of the program; <<1, 0>> is the float *)
(* inf and <<0, 0>> the float nan, with the IEEE rules x/0 = inf, 0/0 =    *)
(* nan, inf*0 = nan, inf/inf = nan, and nan absorbing every operation      *)

RECURSIVE GCD(_, _)
GCD(a, b) == IF b = 0 THEN a ELSE GCD(b, a % b)

Frac(n, d) ==
    IF d = 0 THEN <<IF n > 0 THEN 1 ELSE 0, 0>>
    ELSE LET g == GCD(n, d) IN <<n \div g, d \div g>>
FInt(n) == <<n, 1>>
NaN == <<0, 0>>
Inf == <<1, 0>>
isnan(a) == a = NaN
isfinite(a) == a[2] # 0
FMul(a, b) == Frac(a[1] * b[1], a[2] * b[2])
FDiv(a, b) == Frac(a[1] * b[2], a[2] * b[1])
FAdd(a, b) ==
    IF a = Inf /\ b = Inf THEN Inf
    ELSE Frac(a[1] * b[2] + b[1] * a[2], a[2] * b[2])
\* np.abs(a - b)
FAbsDiff(a, b) ==
    LET x == a[1] * b[2] - b[1] * a[2]
    IN Frac(IF x < 0 THEN 0 - x ELSE x, a[2] * b[2])

RECURSIVE FSum(_)
FSum(xs) == IF xs = <<>> THEN FInt(0) ELSE FAdd(Head(xs), FSum(Tail(xs)))

\* np.dot of two vectors of equal length
FDot(xs, ys) == FSum([i \in 1..Len(xs) |-> FMul(xs[i], ys[i])])

RECURSIVE SumSeq(_)
SumSeq(xs) == IF xs = <<>> THEN 0 ELSE Head(xs) + SumSeq(Tail(xs))

Range(f) == {f[x] : x \in DOMAIN f}

\* dict(zip(keys, vals)): a later pair of the same key replaces an earlier one
DictZip(keys, vals) ==
    LET n == IF Len(keys) < Len(vals) THEN Len(keys) ELSE Len(vals)
        Last(k) == CHOOSE i \in 1..n :
                      keys[i] = k /\ \A j \in (i + 1)..n : keys[j] # k
    IN [k \in {keys[i] : i \in 1..n} |-> vals[Last(k)]]

RECURSIVE Flatten(_)
Flatten(ss) == IF ss = <<>> THEN <<>> ELSE Head(ss) \o Flatten(Tail(ss))

-----------------------------------------------------------------------------
(* sector_universe/universe.py: Universe *)

\* the rows (sector, ticker) of the universe CSV files the run may be given
CsvFiles == { << <<"S1", "a">>, <<"S1", "b">>, <<"S2", "c">> >> }

AllTickers == {"a", "b", "c"}

\* the sets of tickers zipline may fail to resolve or trade: none, one ticker
\* of a sector of two, the only ticker of a sector
UntradeableSets == {{}, {"b"}, {"c"}}

\* pandas unique(): the values in order of first appearance
RECURSIVE Unique(_)
Unique(xs) ==
    IF xs = <<>> THEN <<>>
    ELSE LET init == Unique(SubSeq(xs, 1, Len(xs) - 1))
             x == xs[Len(xs)]
         IN IF x \in Range(init) THEN init ELSE Append(init, x)

\* Universe.__init__
UniverseInit(csv) ==
    LET labels == Unique([i \in 1..Len(csv) |-> csv[i][1]])
        InSector(l) == LET Is(row) == row[1] = l
                           rows == SelectSeq(csv, Is)
                       IN [i \in 1..Len(rows) |-> rows[i][2]]
    IN [sector_labels |-> labels,
        tickers |-> Unique([i \in 1..Len(csv) |-> csv[i][2]]),
        sectors |-> [l \in Range(labels) |-> InSector(l)],
        invalid_tickers |-> {}]

\* list.remove(x): the first occurrence goes
RemoveFirst(lst, x) ==
    LET i == CHOOSE k \in 1..Len(lst) :
                 lst[k] = x /\ \A j \in 1..(k - 1) : lst[j] # x
    IN SubSeq(lst, 1, i - 1) \o SubSeq(lst, i + 1, Len(lst))

\* the inner for-loop of removeInvalidTicker from position i on: it walks the
\* list it is removing from, so the element after a removed one is skipped
RECURSIVE RemoveWalk(_, _, _, _)
RemoveWalk(lst, i, t, hit) ==
    IF i > Len(lst) THEN [lst |-> lst, hit |-> hit]
    ELSE IF lst[i] = t THEN RemoveWalk(RemoveFirst(lst, t), i + 1, t, TRUE)
    ELSE RemoveWalk(lst, i + 1, t, hit)

\* Universe.removeInvalidTicker
removeInvalidTicker(u, invalid_ticker) ==
    LET walk(l) == RemoveWalk(u.sectors[l], 1, invalid_ticker, FALSE)
    IN [u EXCEPT
          !.sectors = [l \in DOMAIN u.sectors |-> walk(l).lst],
          !.invalid_tickers =
              @ \cup {<<invalid_ticker, l>> : l \in {x \in DOMAIN u.sectors : walk(x).hit}}]

\* Backtest.validateSectorUniverse, from the i-th unique ticker on
RECURSIVE ValidateFrom(_, _, _)
ValidateFrom(u, i, can) ==
    IF i > Len(u.tickers) THEN u
    ELSE IF u.tickers[i] \in can THEN ValidateFrom(u, i + 1, can)
    ELSE ValidateFrom(removeInvalidTicker(u, u.tickers[i]), i + 1, can)

validateSectorUniverse(u, can) == ValidateFrom(u, 1, can)

-----------------------------------------------------------------------------
(* synthetic_etf/price_weighted.py: PriceWeightedETF *)

\* zipline_data.current(symbols(*tickers), 'price')
CurrentPrices(tickers, px) == [i \in 1..Len(tickers) |-> px[tickers[i]]]

\* mutant: the prices are divided by the first price, not by their sum
updateWeights_ByFirstPrice(etf, px) ==
    LET current_asset_prices == CurrentPrices(etf.tickers, px)
        alloc == [i \in 1..Len(etf.tickers) |->
                     Frac(current_asset_prices[i], current_asset_prices[1])]
    IN [etf EXCEPT !.alloc_weights = alloc,
                   !.alloc_weights_dict = DictZip(etf.tickers, alloc)]

\* mutant: each price counts by the weight the ETF holds for its ticker
updateWeights_Compounding(etf, px) ==
    LET current_asset_prices ==
            [i \in 1..Len(etf.tickers) |->
                IF etf.alloc_weights = <<>> THEN FInt(px[etf.tickers[i]])
                ELSE FMul(FInt(px[etf.tickers[i]]), etf.alloc_weights[i])]
        current_sum == FSum(current_asset_prices)
        alloc == [i \in 1..Len(etf.tickers) |->
                     FDiv(current_asset_prices[i], current_sum)]
    IN [etf EXCEPT !.alloc_weights = alloc,
                   !.alloc_weights_dict = DictZip(etf.tickers, alloc)]

\* PriceWeightedETF.updateWeights
updateWeights(etf, px) ==
    LET current_asset_prices == CurrentPrices(etf.tickers, px)
        current_sum == SumSeq(current_asset_prices)
        alloc == [i \in 1..Len(etf.tickers) |->
                     Frac(current_asset_prices[i], current_sum)]
    IN [etf EXCEPT !.alloc_weights = alloc,
                   !.alloc_weights_dict = DictZip(etf.tickers, alloc)]

\* historical_data.fillna(method='bfill'): a missing bar takes the nearest
\* later value of its column
RECURSIVE bfill(_)
bfill(col) ==
    IF Len(col) = 0 THEN <<>>
    ELSE LET later == bfill(Tail(col))
         IN <<IF isnan(Head(col)) /\ later # <<>> THEN Head(later)
              ELSE Head(col)>> \o later

\* historical_data.fillna(method='ffill'): a missing bar takes the nearest
\* earlier value of its column
RECURSIVE ffill(_)
ffill(col) ==
    IF Len(col) = 0 THEN <<>>
    ELSE LET earlier == ffill(SubSeq(col, 1, Len(col) - 1))
             last == col[Len(col)]
         IN Append(earlier,
                   IF isnan(last) /\ earlier # <<>> THEN earlier[Len(earlier)]
                   ELSE last)

\* pd.Series.sum(): missing values are skipped
RowSum(row) == FSum([i \in 1..Len(row) |-> IF isnan(row[i]) THEN FInt(0) ELSE row[i]])

\* the body of the loop of updateParameters on one bar, after the trigger was
\* evaluated to trig: w = [util, alloc_weights, first_run, setf_prices,
\* reweighted, rows], reweighted[i] telling whether the allocation weights
\* were recomputed at bar i and rows holding the bars walked so far
WalkStep(w, row, trig) ==
    LET recompute == trig.ret \/ w.first_run
        alloc_weights == IF recompute
                         THEN [j \in 1..Len(row) |-> FDiv(row[j], RowSum(row))]
                         ELSE w.alloc_weights
    IN [util |-> trig.util,
        alloc_weights |-> alloc_weights,
        first_run |-> w.first_run /\ ~recompute,
        setf_prices |-> Append(w.setf_prices, FDot(alloc_weights, row)),
        reweighted |-> Append(w.reweighted, recompute),
        rows |-> Append(w.rows, row)]

\* mutant: on the first bar the trigger is not evaluated
RECURSIVE WalkHistory_FirstRunFirst(_, _, _, _, _)
WalkHistory_FirstRunFirst(rows, dates, cfg, i, w) ==
    IF i > Len(rows) THEN w
    ELSE WalkHistory_FirstRunFirst(rows, dates, cfg, i + 1,
             WalkStep(w, rows[i],
                      IF w.first_run THEN [ret |-> TRUE, util |-> w.util]
                      ELSE isRestructureTriggered(w.util, cfg, dates[i])))

\* the loop of updateParameters from bar i on; the trigger is evaluated on
\* every bar, the first included
RECURSIVE WalkHistory(_, _, _, _, _)
WalkHistory(rows, dates, cfg, i, w) ==
    IF i > Len(rows) THEN w
    ELSE WalkHistory(rows, dates, cfg, i + 1,
             WalkStep(w, rows[i],
                      isRestructureTriggered(w.util, cfg, dates[i])))

\* np.diff(np.log(setf_prices)): a log return is kept as the ratio of the two
\* levels, the exponential of the float: 1 for 0.0, 0 for -inf (log 0), inf
\* for +inf and nan for nan
LogReturns(setf_prices) ==
    [i \in 1..(Len(setf_prices) - 1) |-> FDiv(setf_prices[i + 1], setf_prices[i])]

RECURSIVE FProd(_)
FProd(xs) == IF xs = <<>> THEN FInt(1) ELSE FMul(Head(xs), FProd(Tail(xs)))

\* a float log return that is neither infinite nor nan
FiniteLog(r) == isfinite(r) /\ r[1] # 0

\* np.var(log_rets), up to what the model can tell of it: nan for an empty
\* series or one with a non-finite entry, 0 for a constant series
Variance(log_rets) ==
    IF log_rets = <<>> \/ \E i \in 1..Len(log_rets) : ~FiniteLog(log_rets[i])
        THEN "nan"
    ELSE IF \A i \in 1..Len(log_rets) : log_rets[i] = log_rets[1] THEN "zero"
    ELSE "positive"

\* mutant: the columns are filled forward first and backward then
RECURSIVE FilledColumns_ForwardFirst(_, _, _)
FilledColumns_ForwardFirst(etf, history, j) ==
    IF j > Len(etf.tickers) THEN <<>>
    ELSE <<bfill(ffill(history.price[etf.tickers[j]]))>>
         \o FilledColumns_ForwardFirst(etf, history, j + 1)

\* the columns of the window after fillna, from the ETF's ticker j on
RECURSIVE FilledColumns(_, _, _)
FilledColumns(etf, history, j) ==
    IF j > Len(etf.tickers) THEN <<>>
    ELSE <<ffill(bfill(history.price[etf.tickers[j]]))>>
         \o FilledColumns(etf, history, j + 1)

\* historical_data.iterrows(): the n bars of the columns, a row holding the
\* prices of the ETF's tickers in their order
IterRows(cols, n) ==
    [i \in 1..n |-> [j \in 1..Len(cols) |-> cols[j][i]]]

\* the window of updateParameters after fillna, bar by bar
Rows(etf, history) ==
    IterRows(FilledColumns(etf, history, 1), Len(history.dates))

\* mutant: the weights of the walk's latest reweight bar are stored in the ETF
AfterWalk_StoresWeights(etf, w) ==
    LET log_rets == LogReturns(w.setf_prices)
    IN IF \E i \in 1..Len(w.setf_prices) : isnan(w.setf_prices[i])
       THEN [raised |-> TRUE, etf |-> [etf EXCEPT !.backtest_util = w.util],
             before |-> etf.backtest_util,
             reweighted |-> w.reweighted, setf_prices |-> w.setf_prices,
             rows |-> w.rows]
       ELSE [raised |-> FALSE,
             etf |-> [etf EXCEPT !.backtest_util = w.util,
                                 !.alloc_weights = w.alloc_weights,
                                 !.alloc_weights_dict =
                                     DictZip(etf.tickers, w.alloc_weights),
                                 !.log_rets = log_rets,
                                 !.period_log_ret = FProd(log_rets),
                                 !.variance = Variance(log_rets),
                                 !.setf_prices = w.setf_prices],
             before |-> etf.backtest_util,
             reweighted |-> w.reweighted, setf_prices |-> w.setf_prices,
             rows |-> w.rows]

\* updateParameters after the loop ended in w: [raised, etf, before,
\* reweighted, setf_prices, rows], before the ETF's Utilities as the walk
\* found them
AfterWalk(etf, w) ==
    LET log_rets == LogReturns(w.setf_prices)
    IN IF \E i \in 1..Len(w.setf_prices) : isnan(w.setf_prices[i])
       THEN [raised |-> TRUE, etf |-> [etf EXCEPT !.backtest_util = w.util],
             before |-> etf.backtest_util,
             reweighted |-> w.reweighted, setf_prices |-> w.setf_prices,
             rows |-> w.rows]
       ELSE [raised |-> FALSE,
             etf |-> [etf EXCEPT !.backtest_util = w.util,
                                 !.log_rets = log_rets,
                                 !.period_log_ret = FProd(log_rets),
                                 !.variance = Variance(log_rets),
                                 !.setf_prices = w.setf_prices],
             before |-> etf.backtest_util,
             reweighted |-> w.reweighted, setf_prices |-> w.setf_prices,
             rows |-> w.rows]

\* PriceWeightedETF.updateParameters on zipline_data.history(...), history =
\* [dates, price]
updateParameters(etf, cfg, history) ==
    AfterWalk(etf,
              WalkHistory(Rows(etf, history), history.dates, cfg, 1,
                  [util |-> etf.backtest_util, alloc_weights |-> <<>>,
                   first_run |-> TRUE, setf_prices |-> <<>>, reweighted |-> <<>>,
                   rows |-> <<>>]))

\* the object PriceWeightedETF.__init__ starts from: name, tickers and its own
\* Utilities; the other attributes are not set yet
ETFObject(sector_label, tickers, cfg) ==
    [name |-> sector_label, tickers |-> tickers,
     backtest_util |-> UtilitiesInit(cfg),
     alloc_weights |-> <<>>, alloc_weights_dict |-> <<>>,
     log_rets |-> <<>>, period_log_ret |-> <<>>, variance |-> "unset",
     setf_prices |-> <<>>]

\* PriceWeightedETF.__init__ after updateParameters came to p: updateWeights,
\* unless it raised
InitWeights(p, px) ==
    IF p.raised THEN p ELSE [p EXCEPT !.etf = updateWeights(@, px)]

\* PriceWeightedETF.__init__: updateParameters, then updateWeights
PriceWeightedETF(sector_label, tickers, cfg, zipline_data) ==
    InitWeights(updateParameters(ETFObject(sector_label, tickers, cfg), cfg,
                                 zipline_data.history),
                zipline_data.current)

\* PriceWeightedETF.getCurrentPrice with the stored weights
getCurrentPrice(etf, px) ==
    FDot([i \in 1..Len(etf.tickers) |-> FInt(px[etf.tickers[i]])],
         etf.alloc_weights)

\* PriceWeightedETF.getCurrentPrice with override weights
getCurrentPriceWith(etf, px, alloc_weights) ==
    FDot([i \in 1..Len(etf.tickers) |-> FInt(px[etf.tickers[i]])],
         alloc_weights)

\* PriceWeightedETF.getTickerWeight (the ticker is one of the ETF's)
getTickerWeight(etf, ticker) == etf.alloc_weights_dict[ticker]

-----------------------------------------------------------------------------
(* portfolio/minvar.py: MinimumVariance *)

\* the vectors of k entries n/steps that sum to total/steps
RECURSIVE GridVectors(_, _)
GridVectors(k, total) ==
    IF k = 0 THEN (IF total = 0 THEN {<<>>} ELSE {})
    ELSE UNION {{<<n>> \o v : v \in GridVectors(k - 1, total - n)} : n \in 0..total}

\* the feasible points of the weight grid: 0 <= w_i <= 1, sum(w) = 1
SimplexGrid(k, steps) ==
    {[i \in 1..k |-> Frac(v[i], steps)] : v \in GridVectors(k, steps)}

\* np.random.dirichlet(np.ones(K), 1)[0]: a point inside the simplex
DirichletDraws(k) ==
    {x \in SimplexGrid(k, DirichletSteps) : \A i \in 1..k : x[i][1] > 0}

\* where a solver that gives up may stand: within the bounds, the sum of the
\* weights one grid step short of 1
Iterates(k) ==
    {[i \in 1..k |-> Frac(v[i], WeightSteps)] : v \in GridVectors(k, WeightSteps - 1)}

\* np.cov(log_rets) * lookback, up to what decides the solver's result: nan
\* when a log return is not finite or a row has fewer than two of them, the
\* zero matrix when every row is constant
CovKind(log_rets) ==
    IF \E i \in 1..Len(log_rets) :
          Len(log_rets[i]) < 2 \/ Variance(log_rets[i]) = "nan" THEN "nan"
    ELSE IF \A i \in 1..Len(log_rets) : Variance(log_rets[i]) = "zero" THEN "zero"
    ELSE "other"

\* scipy.optimize.minimize(objective, x0 = a Dirichlet draw, bounds,
\* sum(x) = 1): the results it may hand back, [success, x].  On a zero
\* matrix every feasible point is optimal and the solver stays at x0; on
\* another matrix it ends in some feasible point; it may also give up, and
\* it does when the objective is nan.
minimize(log_rets) ==
    LET k == Len(log_rets)
        kind == CovKind(log_rets)
        optimal == IF kind = "zero" THEN DirichletDraws(k)
                   ELSE IF kind = "other" THEN SimplexGrid(k, WeightSteps)
                   ELSE {}
    IN {[success |-> TRUE, x |-> x] : x \in optimal}
       \cup {[success |-> FALSE, x |-> x] : x \in Iterates(k)}

\* MinimumVariance.computeWeights: what a call may come to, [raised, x,
\* success].  cov_mat.shape[0] raises for a single row, whose covariance is a
\* scalar; otherwise the x of minimize's result is returned, whatever its
\* success flag says
computeWeights(log_rets) ==
    IF Len(log_rets) < 2
    THEN {[raised |-> "IndexError", x |-> <<>>, success |-> FALSE]}
    ELSE {[raised |-> "no", x |-> r.x, success |-> r.success] :
             r \in minimize(log_rets)}

-----------------------------------------------------------------------------
(* backtest/bookkeeping.py: Bookkeeping *)

etf_restr_turnover_labels(u) ==
    [i \in 1..Len(u.sector_labels) |-> <<"etf_restr_turnover", u.sector_labels[i]>>]
total_etf_restr_turnover_label == << <<"total_etf_restr_turnover">> >>
port_rebal_turnover_labels(u) ==
    [i \in 1..Len(u.sector_labels) |-> <<"port_rebal_turnover", u.sector_labels[i]>>]
total_port_rebal_turnover_label == << <<"total_port_rebal_turnover">> >>

clean_labels(u) ==
    etf_restr_turnover_labels(u) \o total_etf_restr_turnover_label
    \o port_rebal_turnover_labels(u) \o total_port_rebal_turnover_label

\* zipline record(**kwargs): the named variables take the given values
Record(rec, log_dict) ==
    [k \in DOMAIN rec \cup DOMAIN log_dict |->
        IF k \in DOMAIN log_dict THEN log_dict[k] ELSE rec[k]]

\* Bookkeeping.cleanLog
cleanLog(rec, u) ==
    Record(rec, [k \in Range(clean_labels(u)) |-> FInt(0)])

\* mutant: the turnover is taken on the new weight, not on the change
rebalanceLog_NewWeight(rec, u, old_weights, new_weights, new_prices) ==
    LET port_rebal_turnover ==
            [i \in 1..Len(new_weights) |-> FMul(new_weights[i], new_prices[i])]
        labels == port_rebal_turnover_labels(u)
    IN Record(rec,
              [k \in Range(labels) \cup {total_port_rebal_turnover_label[1]} |->
                  IF k = total_port_rebal_turnover_label[1]
                  THEN FSum(port_rebal_turnover)
                  ELSE DictZip(labels, port_rebal_turnover)[k]])

\* Bookkeeping.rebalanceLog
rebalanceLog(rec, u, old_weights, new_weights, new_prices) ==
    LET port_rebal_turnover ==
            [i \in 1..Len(new_weights) |->
                FMul(FAbsDiff(new_weights[i], old_weights[i]), new_prices[i])]
        labels == port_rebal_turnover_labels(u)
    IN Record(rec,
              [k \in Range(labels) \cup {total_port_rebal_turnover_label[1]} |->
                  IF k = total_port_rebal_turnover_label[1]
                  THEN FSum(port_rebal_turnover)
                  ELSE DictZip(labels, port_rebal_turnover)[k]])

\* mutant: the summed weight change of a sector is multiplied by the
\* sector's index price
restructureLog_IndexPrice(rec, u, etfs, px, old_weights, new_weights) ==
    LET abs_weights_delta ==
            [i \in 1..Len(new_weights) |->
                [j \in 1..Len(new_weights[i]) |->
                    FAbsDiff(new_weights[i][j], old_weights[i][j])]]
        etf_restr_turnover ==
            [i \in 1..Len(u.sector_labels) |->
                FMul(FSum(abs_weights_delta[i]), getCurrentPrice(etfs[i], px))]
        labels == etf_restr_turnover_labels(u)
    IN Record(rec,
              [k \in Range(labels) \cup {total_etf_restr_turnover_label[1]} |->
                  IF k = total_etf_restr_turnover_label[1]
                  THEN FSum(etf_restr_turnover)
                  ELSE DictZip(labels, etf_restr_turnover)[k]])

\* Bookkeeping.restructureLog; old_weights and new_weights hold one component
\* weight vector per sector, etfs the synthetic ETFs in the same order
restructureLog(rec, u, etfs, px, old_weights, new_weights) ==
    LET abs_weights_delta ==
            [i \in 1..Len(new_weights) |->
                [j \in 1..Len(new_weights[i]) |->
                    FAbsDiff(new_weights[i][j], old_weights[i][j])]]
        etf_restr_turnover ==
            [i \in 1..Len(u.sector_labels) |->
                getCurrentPriceWith(etfs[i], px, abs_weights_delta[i])]
        labels == etf_restr_turnover_labels(u)
    IN Record(rec,
              [k \in Range(labels) \cup {total_etf_restr_turnover_label[1]} |->
                  IF k = total_etf_restr_turnover_label[1]
                  THEN FSum(etf_restr_turnover)
                  ELSE DictZip(labels, etf_restr_turnover)[k]])

\* the labels etfDataLog builds
etf_price_labels(u) ==
    [i \in 1..Len(u.sector_labels) |-> <<"etf", u.sector_labels[i]>>]
port_weights_label(u) ==
    [i \in 1..Len(u.sector_labels) |-> <<"etf_weight", u.sector_labels[i]>>]

\* Bookkeeping.etfDataLog; nothing in the backtest calls it
etfDataLog(rec, u, etf_prices, etf_weights) ==
    Record(Record(rec, DictZip(etf_price_labels(u), etf_prices)),
           DictZip(port_weights_label(u), etf_weights))

\* Bookkeeping.restructureLog's parameters, and the keywords restructureETF
\* calls it with
restructureLog_parameters == {"context", "zipline_data", "old_weights", "new_weights"}
restructureLog_keywords == {"context", "zipline_data", "old_prices"}

\* a Python call by keywords binds when every keyword names a parameter and
\* every parameter (none has a default) is given
Binds(parameters, keywords) == keywords = parameters

-----------------------------------------------------------------------------
(* History kept for the claims: which evaluations were in their week window *)

\* the day-of-month window of week w, as the specification words it
WindowLo(w) == (w - 1) * 7 + 1
WindowHi(w) == w * 7
InWindow(t, w) == WindowLo(w) <= t.d /\ t.d <= WindowHi(w)

YM(t) == <<t.y, t.m>>

\* seen[kind] = [ym: the calendar month of the latest evaluation inside the
\* window, n: how many evaluations of that calendar month returned true];
\* seen.opt = what the optimizer returned the last time it ran
NoneSeen == [ym |-> <<0, 0>>, n |-> 0]

\* the date is the first one of its calendar month evaluated inside the window
Fresh(s, kind, t, w) == InWindow(t, w) /\ s[kind].ym # YM(t)

SeenAfter(s, kind, t, w, ret) ==
    LET one == IF ret THEN 1 ELSE 0 IN
    IF Fresh(s, kind, t, w) THEN [s EXCEPT ![kind] = [ym |-> YM(t), n |-> one]]
    ELSE IF s[kind].ym = YM(t) THEN [s EXCEPT ![kind].n = @ + one]
    ELSE s

\* obs: the call, its date, what each evaluation returned, whether the date
\* was fresh for the kind, and the Utilities object as it was before the call
NoObs == [call |-> "none", date |-> StartDate, reb |-> FALSE, restr |-> FALSE,
          fresh_reb |-> FALSE, fresh_restr |-> FALSE,
          before |-> UtilitiesInit([restr |-> [day |-> "*", week |-> 1],
                                    reb |-> [day |-> "*", week |-> 1]])]

ObsSetInitialFlags(s, u, cfg, t) ==
    LET r == setInitialFlags(u, cfg, t) IN
    [call |-> "setInitialFlags", date |-> t, reb |-> r.reb, restr |-> r.restr,
     fresh_reb |-> Fresh(s, "reb", t, cfg.reb.week),
     fresh_restr |-> Fresh(s, "restr", t, cfg.restr.week),
     before |-> u]

ObsRebalance(s, u, cfg, t) ==
    [call |-> "isRebalanceTriggered", date |-> t,
     reb |-> isRebalanceTriggered(u, cfg, t).ret, restr |-> FALSE,
     fresh_reb |-> Fresh(s, "reb", t, cfg.reb.week), fresh_restr |-> FALSE,
     before |-> u]

ObsRestructure(s, u, cfg, t) ==
    [call |-> "isRestructureTriggered", date |-> t,
     reb |-> FALSE, restr |-> isRestructureTriggered(u, cfg, t).ret,
     fresh_reb |-> FALSE, fresh_restr |-> Fresh(s, "restr", t, cfg.restr.week),
     before |-> u]

-----------------------------------------------------------------------------
(* SpecSched: the scheduler, called bar after bar as zipline_handle_data   *)
(* calls it: setInitialFlags on the first bar, then on every bar           *)
(* isRebalanceTriggered followed by isRestructureTriggered.                *)

\* the main specification's variables, which the scheduler never touches
MainIdle ==
    /\ universe = <<>> /\ can_trade = {} /\ synthetics = <<>>
    /\ port_w = <<>> /\ port_weights = <<>> /\ recorded = <<>> /\ calls = <<>>
    /\ halted = "no" /\ data = <<>>

InitSched ==
    /\ now = StartDate
    /\ config \in [restr : TriggerSpecs, reb : TriggerSpecs]
    /\ util = UtilitiesInit(config)
    /\ first_run = TRUE
    /\ pc = "handle_data"
    /\ obs = NoObs
    /\ seen = [reb |-> NoneSeen, restr |-> NoneSeen, opt |-> <<>>]
    /\ MainIdle

\* zipline_handle_data, first bar: context.util.setInitialFlags()
SchedSetInitialFlags ==
    /\ pc = "handle_data" /\ first_run
    /\ LET r == setInitialFlags(util, config, now) IN
        /\ util' = r.util
        /\ seen' = SeenAfter(SeenAfter(seen, "reb", now, config.reb.week, r.reb),
                             "restr", now, config.restr.week, r.restr)
    /\ obs' = ObsSetInitialFlags(seen, util, config, now)
    /\ first_run' = FALSE
    /\ pc' = "advance"
    /\ UNCHANGED <<now, config>>
    /\ UNCHANGED mainVars

\* zipline_handle_data, later bars: context.util.isRebalanceTriggered()
SchedIsRebalanceTriggered ==
    /\ pc = "handle_data" /\ ~first_run
    /\ LET r == isRebalanceTriggered(util, config, now) IN
        /\ util' = r.util
        /\ seen' = SeenAfter(seen, "reb", now, config.reb.week, r.ret)
    /\ obs' = ObsRebalance(seen, util, config, now)
    /\ pc' = "restructure"
    /\ UNCHANGED <<now, config, first_run>>
    /\ UNCHANGED mainVars

\* zipline_handle_data, later bars: context.util.isRestructureTriggered()
SchedIsRestructureTriggered ==
    /\ pc = "restructure"
    /\ LET r == isRestructureTriggered(util, config, now) IN
        /\ util' = r.util
        /\ seen' = SeenAfter(seen, "restr", now, config.restr.week, r.ret)
    /\ obs' = ObsRestructure(seen, util, config, now)
    /\ pc' = "advance"
    /\ UNCHANGED <<now, config, first_run>>
    /\ UNCHANGED mainVars

\* the simulation clock moves to the next bar
SchedAdvance ==
    /\ pc = "advance"
    /\ \E gap \in 1..MaxGap :
        /\ AddDays(now, gap).y <= EndYear
        /\ now' = AddDays(now, gap)
    /\ pc' = "handle_data"
    /\ UNCHANGED <<config, util, first_run, obs, seen>>
    /\ UNCHANGED mainVars

NextSched ==
    \/ SchedSetInitialFlags
    \/ SchedIsRebalanceTriggered
    \/ SchedIsRestructureTriggered
    \/ SchedAdvance

SpecSched == InitSched /\ [][NextSched]_vars

-----------------------------------------------------------------------------
(* SpecWeeks: the scheduler of SpecSched, constructed from trigger specs    *)
(* whose week number no month has: week 0, and the week after the last one  *)
(* SpecSched draws                                                          *)

\* the 7-day windows that hold a day of some month: days 1..7 up to 29..35
WeekInRange(w) == w \in 1..5

OutOfRangeSpecs == [day : TriggerDays, week : {0, MaxWeek + 1}]

InitWeeks ==
    /\ now = StartDate
    /\ config \in [restr : OutOfRangeSpecs, reb : OutOfRangeSpecs]
    /\ util = UtilitiesInit(config)
    /\ first_run = TRUE
    /\ pc = "handle_data"
    /\ obs = NoObs
    /\ seen = [reb |-> NoneSeen, restr |-> NoneSeen, opt |-> <<>>]
    /\ MainIdle

SpecWeeks == InitWeeks /\ [][NextSched]_vars

-----------------------------------------------------------------------------
(* backtest/zipline_backtest.py: Backtest.  The operators take and return  *)
(* the context c = [first_run, util, universe, synthetics, port_w,         *)
(* port_weights, recorded, calls, halted]; inp is what the bar brings:     *)
(* [date, data], data = [current, history] what zipline_data returns for   *)
(* the current prices and for the historical window.  The optimizer starts *)
(* from a random draw, so an operator that runs it returns the set of the  *)
(* contexts it may end in.                                                 *)

Called(c, op, val) == [c EXCEPT !.calls = Append(@, [op |-> op, val |-> val])]

Raised(c, op, exc) == [Called(c, op, exc) EXCEPT !.halted = exc]

SectorIndex(u, l) == CHOOSE i \in 1..Len(u.sector_labels) : u.sector_labels[i] = l

\* mutant: every ticker is given its sector's first component weight
SectorOrders_FirstWeight(c, sector_label) ==
    LET sector == c.synthetics[sector_label]
        sector_weight == c.port_weights[sector_label]
    IN [i \in 1..Len(sector.tickers) |->
           [sector |-> sector_label, pos |-> i, ticker |-> sector.tickers[i],
            target |-> FMul(sector_weight,
                            getTickerWeight(sector, sector.tickers[1]))]]

\* the order_target_percent calls of one sector, in ticker order
SectorOrders(c, sector_label) ==
    LET sector == c.synthetics[sector_label]
        sector_weight == c.port_weights[sector_label]
    IN [i \in 1..Len(sector.tickers) |->
           [sector |-> sector_label, pos |-> i, ticker |-> sector.tickers[i],
            target |-> FMul(sector_weight,
                            getTickerWeight(sector, sector.tickers[i]))]]

\* mutant: targets are issued for the tickers of the first sector only
updatePositions_FirstSector(c) ==
    LET labels == c.universe.sector_labels
        orders == Flatten([i \in 1..1 |-> SectorOrders(c, labels[i])])
    IN Called(c, "updatePositions",
              [orders |-> orders, port_w |-> c.port_w,
               alloc |-> [l \in DOMAIN c.synthetics |->
                             c.synthetics[l].alloc_weights]])

\* Backtest.updatePositions; the call is logged with the orders it issued and
\* with the weight vectors stored when it ran
updatePositions(c) ==
    LET labels == c.universe.sector_labels
        orders == Flatten([i \in 1..Len(labels) |-> SectorOrders(c, labels[i])])
    IN Called(c, "updatePositions",
              [orders |-> orders, port_w |-> c.port_w,
               alloc |-> [l \in DOMAIN c.synthetics |->
                             c.synthetics[l].alloc_weights]])

\* the bars at which each updateParameters recomputed the weights, the
\* series of index levels it built and the bars it walked
RECURSIVE Walks(_)
Walks(ps) ==
    IF ps = <<>> THEN <<>>
    ELSE <<[before |-> Head(ps).before, reweighted |-> Head(ps).reweighted,
            setf_prices |-> Head(ps).setf_prices, rows |-> Head(ps).rows]>>
         \o Walks(Tail(ps))

\* the constructor calls of buildSyntheticETFs from label i on, each by what
\* it comes to
RECURSIVE Constructed(_, _, _, _)
Constructed(u, cfg, zipline_data, i) ==
    IF i > Len(u.sector_labels) THEN <<>>
    ELSE <<PriceWeightedETF(u.sector_labels[i], u.sectors[u.sector_labels[i]],
                            cfg, zipline_data)>>
         \o Constructed(u, cfg, zipline_data, i + 1)

\* the updateParameters calls of rebalancePortfolio from label i on, each by
\* what it comes to
RECURSIVE Updated(_, _, _, _)
Updated(c, cfg, history, i) ==
    IF i > Len(c.universe.sector_labels) THEN <<>>
    ELSE <<updateParameters(c.synthetics[c.universe.sector_labels[i]], cfg,
                            history)>>
         \o Updated(c, cfg, history, i + 1)

\* the loop of buildSyntheticETFs, made[i] being what the constructor of
\* label i comes to: one that raises ends the loop with the earlier ETFs
\* stored
StoreETFs(c, made, prices) ==
    LET labels == c.universe.sector_labels
        bad == {i \in 1..Len(labels) : made[i].raised}
        upto == IF bad = {} THEN Len(labels)
                ELSE (CHOOSE i \in bad : \A j \in bad : i <= j) - 1
        built == [l \in {labels[i] : i \in 1..upto} |->
                     made[SectorIndex(c.universe, l)].etf]
        c1 == [c EXCEPT !.synthetics = built]
    IN IF upto < Len(labels)
       THEN Raised(c1, "updateParameters", "Exception")
       ELSE Called(c1, "buildSyntheticETFs",
                   [prices |-> prices, walks |-> Walks(made)])

\* Backtest.buildSyntheticETFs: the constructors run in label order
buildSyntheticETFs(c, cfg, inp) ==
    StoreETFs(c, Constructed(c.universe, cfg, inp.data, 1), inp.data.current)

\* mutant: the ETFs evaluate the trigger on the orchestrator's Utilities, so
\* the month a walk fired in is stored there
UpdateAllParameters_SharedUtilities(c, ps) ==
    LET labels == c.universe.sector_labels
        bad == {i \in 1..Len(labels) : ps[i].raised}
        upto == IF bad = {} THEN Len(labels)
                ELSE CHOOSE i \in bad : \A j \in bad : i <= j
        c1 == [c EXCEPT !.synthetics =
                  [l \in DOMAIN @ |->
                      IF SectorIndex(c.universe, l) <= upto
                      THEN ps[SectorIndex(c.universe, l)].etf ELSE @[l]],
                        !.util.last_month_restructure =
                            ps[upto].etf.backtest_util.last_month_restructure]
    IN IF bad # {} THEN Raised(c1, "updateParameters", "Exception") ELSE c1

\* the list comprehension of rebalancePortfolio: updateParameters on each
\* ETF in label order, until one raises; ps[i] is what the call on the ETF
\* of label i comes to
UpdateAllParameters(c, ps) ==
    LET labels == c.universe.sector_labels
        bad == {i \in 1..Len(labels) : ps[i].raised}
        upto == IF bad = {} THEN Len(labels)
                ELSE CHOOSE i \in bad : \A j \in bad : i <= j
        c1 == [c EXCEPT !.synthetics =
                  [l \in DOMAIN @ |->
                      IF SectorIndex(c.universe, l) <= upto
                      THEN ps[SectorIndex(c.universe, l)].etf ELSE @[l]]]
    IN IF bad # {} THEN Raised(c1, "updateParameters", "Exception") ELSE c1

\* what rebalancePortfolio logs of its call of computeWeights
Optimized(c, walks, log_rets, w) ==
    [old |-> c.port_w, new |-> w.x, log_rets |-> log_rets, success |-> w.success,
     walks |-> walks]

\* mutant: the new weights reach context.port_w only; the dictionary
\* updatePositions reads keeps the weights of the first rebalance
BindWeights_StaleDict(c, ps) ==
    LET labels == c.universe.sector_labels
        c1 == UpdateAllParameters(c, ps)
        walks == Walks(ps)
        log_rets == [i \in 1..Len(labels) |-> c1.synthetics[labels[i]].log_rets]
    IN IF c1.halted # "no" THEN {c1}
       ELSE {IF w.raised # "no" THEN Raised(c1, "cov_mat.shape", w.raised)
             ELSE updatePositions(
                    Called([c1 EXCEPT !.port_w = w.x,
                                      !.port_weights = IF @ = <<>>
                                                       THEN DictZip(labels, w.x)
                                                       ELSE @],
                           "computeWeights", Optimized(c, walks, log_rets, w))) :
             w \in computeWeights(log_rets)}

\* mutant: an updateParameters call that raised does not end the rebalance
BindWeights_IgnoresRaise(c, ps) ==
    LET labels == c.universe.sector_labels
        c1 == UpdateAllParameters(c, ps)
        walks == Walks(ps)
        log_rets == [i \in 1..Len(labels) |-> c1.synthetics[labels[i]].log_rets]
    IN {IF w.raised # "no" THEN Raised(c1, "cov_mat.shape", w.raised)
        ELSE updatePositions(
               Called([c1 EXCEPT !.port_w = w.x,
                                 !.port_weights = DictZip(labels, w.x)],
                      "computeWeights", Optimized(c, walks, log_rets, w))) :
        w \in computeWeights(log_rets)}

\* mutant: the rows of the log-return matrix are taken in the reverse order
\* of the labels the weights are zipped with
BindWeights_ReversedRows(c, ps) ==
    LET labels == c.universe.sector_labels
        c1 == UpdateAllParameters(c, ps)
        walks == Walks(ps)
        log_rets == [i \in 1..Len(labels) |->
                        c1.synthetics[labels[Len(labels) + 1 - i]].log_rets]
    IN IF c1.halted # "no" THEN {c1}
       ELSE {IF w.raised # "no" THEN Raised(c1, "cov_mat.shape", w.raised)
             ELSE updatePositions(
                    Called([c1 EXCEPT !.port_w = w.x,
                                      !.port_weights = DictZip(labels, w.x)],
                           "computeWeights", Optimized(c, walks, log_rets, w))) :
             w \in computeWeights(log_rets)}

\* rebalancePortfolio after the updateParameters calls came to ps: the log
\* returns go to computeWeights, its result is bound to context.port_w and
\* context.port_weights, and updatePositions follows; one context for each
\* outcome of the optimizer
BindWeights(c, ps) ==
    LET labels == c.universe.sector_labels
        c1 == UpdateAllParameters(c, ps)
        walks == Walks(ps)
        log_rets == [i \in 1..Len(labels) |-> c1.synthetics[labels[i]].log_rets]
    IN IF c1.halted # "no" THEN {c1}
       ELSE {IF w.raised # "no" THEN Raised(c1, "cov_mat.shape", w.raised)
             ELSE updatePositions(
                    Called([c1 EXCEPT !.port_w = w.x,
                                      !.port_weights = DictZip(labels, w.x)],
                           "computeWeights", Optimized(c, walks, log_rets, w))) :
             w \in computeWeights(log_rets)}

\* Backtest.rebalancePortfolio: the contexts a call may end in
rebalancePortfolio(c, cfg, inp) ==
    BindWeights(c, Updated(c, cfg, inp.data.history, 1))

\* mutant: the restructure puts the portfolio back to equal sector weights
restructureETF_EqualWeights(c, inp) ==
    LET labels == c.universe.sector_labels
        equal == [i \in 1..Len(labels) |-> Frac(1, Len(labels))]
        old_etf_prices == [i \in 1..Len(labels) |->
                              getCurrentPrice(c.synthetics[labels[i]], inp.data.current)]
        c1 == [c EXCEPT !.synthetics =
                  [l \in DOMAIN @ |-> updateWeights(@[l], inp.data.current)],
                        !.port_w = equal,
                        !.port_weights = DictZip(labels, equal)]
        c2 == Called(c1, "updateWeights",
                     [prices |-> inp.data.current, old_prices |-> old_etf_prices,
                      old |-> [l \in DOMAIN c.synthetics |->
                                  c.synthetics[l].alloc_weights]])
        c3 == updatePositions(c2)
    IN IF Binds(restructureLog_parameters, restructureLog_keywords)
       THEN Called(c3, "restructureLog", "recorded")
       ELSE Raised(c3, "restructureLog", "TypeError")

\* Backtest.restructureETF
restructureETF(c, inp) ==
    LET labels == c.universe.sector_labels
        old_etf_prices == [i \in 1..Len(labels) |->
                              getCurrentPrice(c.synthetics[labels[i]], inp.data.current)]
        c1 == [c EXCEPT !.synthetics =
                  [l \in DOMAIN @ |-> updateWeights(@[l], inp.data.current)]]
        c2 == Called(c1, "updateWeights",
                     [prices |-> inp.data.current, old_prices |-> old_etf_prices,
                      old |-> [l \in DOMAIN c.synthetics |->
                                  c.synthetics[l].alloc_weights]])
        c3 == updatePositions(c2)
    IN \* context.books.restructureLog(context=, zipline_data=, old_prices=)
       IF Binds(restructureLog_parameters, restructureLog_keywords)
       THEN Called(c3, "restructureLog", "recorded")
       ELSE Raised(c3, "restructureLog", "TypeError")

\* zipline_handle_data after the rebalance of the first run
FirstRunEnd(c, cfg, inp) ==
    LET r == setInitialFlags(c.util, cfg, inp.date)
    IN IF c.halted # "no" THEN c
       ELSE Called([c EXCEPT !.first_run = FALSE, !.util = r.util],
                   "setInitialFlags", [reb |-> r.reb, restr |-> r.restr])

\* zipline_handle_data, the first-run branch after buildSyntheticETFs left
\* the context c
FirstRebalance(c, cfg, inp) ==
    {FirstRunEnd(c3, cfg, inp) :
        c3 \in IF c.halted = "no" THEN rebalancePortfolio(c, cfg, inp) ELSE {c}}

\* zipline_handle_data, the first-run branch
FirstRunPath(c, cfg, can, inp) ==
    FirstRebalance(
        buildSyntheticETFs(
            Called([c EXCEPT !.universe = validateSectorUniverse(@, can)],
                   "validateSectorUniverse", "done"),
            cfg, inp),
        cfg, inp)

\* zipline_handle_data after the rebalance of a later bar
SteadyEnd(c, cfg, inp) ==
    LET restr == isRestructureTriggered(c.util, cfg, inp.date)
        c1 == Called([c EXCEPT !.util = restr.util],
                     "isRestructureTriggered", restr.ret)
    IN IF c.halted # "no" THEN c
       ELSE IF restr.ret THEN restructureETF(c1, inp) ELSE c1

\* zipline_handle_data, the trigger logic of the later bars
SteadyPath(c, cfg, inp) ==
    LET reb == isRebalanceTriggered(c.util, cfg, inp.date)
        c1 == Called([c EXCEPT !.util = reb.util], "isRebalanceTriggered", reb.ret)
    IN {SteadyEnd(c2, cfg, inp) :
           c2 \in IF reb.ret THEN rebalancePortfolio(c1, cfg, inp) ELSE {c1}}

\* mutant: the first-run branch does not return, the trigger logic follows it
zipline_handle_data_NoReturn(c, cfg, can, inp) ==
    IF c.first_run
    THEN UNION {IF c1.halted # "no" THEN {c1} ELSE SteadyPath(c1, cfg, inp) :
                   c1 \in FirstRunPath([c EXCEPT !.calls = <<>>], cfg, can, inp)}
    ELSE SteadyPath([c EXCEPT !.calls = <<>>], cfg, inp)

\* Backtest.zipline_handle_data: the contexts an invocation may end in
zipline_handle_data(c, cfg, can, inp) ==
    IF c.first_run
    THEN FirstRunPath([c EXCEPT !.calls = <<>>], cfg, can, inp)
    ELSE SteadyPath([c EXCEPT !.calls = <<>>], cfg, inp)

-----------------------------------------------------------------------------
(* Spec: zipline calls zipline_initialize, then zipline_handle_data once   *)
(* per bar until the horizon or until an exception ends the run            *)

\* cfg.py: the triggers as configured
DefaultTriggers ==
    [restr |-> [day |-> "Friday", week |-> 3], reb |-> [day |-> "*", week |-> 1]]

\* the triggers and configurations Spec draws from
MainTriggers == {[day |-> "*", week |-> 1], [day |-> "*", week |-> 2],
                 [day |-> "Friday", week |-> 3]}
MainConfigs == [restr : MainTriggers, reb : {t \in MainTriggers : t.day = "*"}]

Horizon == AddDays(StartDate, MaxDays)

\* Backtest.__init__ and Backtest.zipline_initialize
Init ==
    /\ now = StartDate
    /\ config \in MainConfigs
    /\ util = UtilitiesInit(config)
    /\ first_run = TRUE
    /\ pc = "handle_data"
    /\ obs = NoObs
    /\ seen = [reb |-> NoneSeen, restr |-> NoneSeen, opt |-> <<>>]
    /\ universe \in {UniverseInit(csv) : csv \in CsvFiles}
    /\ can_trade \in {AllTickers \ bad : bad \in UntradeableSets}
    /\ synthetics = <<>>
    /\ port_w = <<>>
    /\ port_weights = <<>>
    /\ recorded = <<>>
    /\ calls = <<>>
    /\ halted = "no"
    /\ data = <<>>

Context ==
    [first_run |-> first_run, util |-> util, universe |-> universe,
     synthetics |-> synthetics, port_w |-> port_w, port_weights |-> port_weights,
     recorded |-> recorded, calls |-> calls, halted |-> halted]

\* the trigger evaluations of one invocation, applied to the history
RECURSIVE SeenCalls(_, _, _, _)
SeenCalls(s, cs, cfg, t) ==
    IF cs = <<>> THEN s
    ELSE LET e == Head(cs)
             s1 == IF e.op = "isRebalanceTriggered"
                       THEN SeenAfter(s, "reb", t, cfg.reb.week, e.val)
                   ELSE IF e.op = "isRestructureTriggered"
                       THEN SeenAfter(s, "restr", t, cfg.restr.week, e.val)
                   ELSE IF e.op = "setInitialFlags"
                       THEN SeenAfter(SeenAfter(s, "reb", t, cfg.reb.week, e.val.reb),
                                      "restr", t, cfg.restr.week, e.val.restr)
                   ELSE IF e.op = "computeWeights"
                       THEN [s EXCEPT !.opt = e.val.new]
                   ELSE s
         IN SeenCalls(s1, Tail(cs), cfg, t)

\* zipline_data.history(...) at a bar: the MaxBars days that end at the bar
History(date, price) ==
    [dates |-> [i \in 1..MaxBars |-> SubDays(date, MaxBars - i)], price |-> price]

\* price columns: constant, rising, alternating, missing throughout
Flat(v) == [i \in 1..MaxBars |-> v]
Ramp == [i \in 1..MaxBars |-> FInt(i)]
Saw == [i \in 1..MaxBars |-> FInt(1 + (i % 2))]

\* the historical windows Spec draws from: a complete one, and one with no
\* price at all for a ticker of the first or of the second sector
MainPrices ==
    {[t \in AllTickers |-> IF t = "a" THEN Ramp ELSE IF t = "b" THEN Flat(FInt(1)) ELSE Saw],
     [t \in AllTickers |-> IF t = "a" THEN Flat(NaN) ELSE IF t = "b" THEN Flat(FInt(1)) ELSE Saw],
     [t \in AllTickers |-> IF t = "a" THEN Ramp ELSE IF t = "b" THEN Flat(FInt(1)) ELSE Flat(NaN)]}

\* zipline_data.current(...) at a bar: a price for every ticker zipline can
\* trade (the handler reads no other; the model puts 1 there), quoted in
\* units of ticker a's price
CurrentDraws(can) ==
    {px \in [AllTickers -> 1..MaxPrice] :
        px["a"] = 1 /\ \A t \in AllTickers \ can : px[t] = 1}

\* the bar brings nothing the handler reads
NoPrices == [t \in AllTickers |-> Flat(FInt(1))]

\* one bar: the clock moves and the handler runs.  The bar's data are drawn
\* where the handler reads them: current prices when ETF weights are computed
\* (first run, restructure), the historical window when a rebalance runs
\* (first run, rebalance trigger)
HandleData ==
    /\ halted = "no"
    /\ \E gap \in (IF first_run THEN 0 ELSE 1)..MaxGap :
        LET date == AddDays(now, gap)
            reb == isRebalanceTriggered(util, config, date)
            rebalances == first_run \/ reb.ret
            restructures == ~first_run
                            /\ isRestructureTriggered(reb.util, config, date).ret
        IN /\ date.y = Horizon.y /\ date.m = Horizon.m /\ date.d <= Horizon.d
           /\ \E px \in (IF first_run \/ restructures
                         THEN CurrentDraws(can_trade)
                         ELSE {[t \in AllTickers |-> 1]}),
                 price \in (IF rebalances THEN MainPrices ELSE {NoPrices}) :
              \E c \in zipline_handle_data(Context, config, can_trade,
                         [date |-> date,
                          data |-> [current |-> px,
                                    history |-> History(date, price)]]) :
                /\ now' = date
                /\ first_run' = c.first_run
                /\ util' = c.util
                /\ universe' = c.universe
                /\ synthetics' = c.synthetics
                /\ port_w' = c.port_w
                /\ port_weights' = c.port_weights
                /\ recorded' = c.recorded
                /\ calls' = c.calls
                /\ halted' = c.halted
                /\ seen' = SeenCalls(seen, c.calls, config, date)
                /\ obs' = IF first_run /\ c.halted = "no"
                          THEN ObsSetInitialFlags(seen, util, config, date)
                          ELSE obs
    /\ UNCHANGED <<config, can_trade, pc, data>>

Next == HandleData

Spec == Init /\ [][Next]_vars

-----------------------------------------------------------------------------
(* SpecETF: the synthetic ETFs and the optimizer called directly on one     *)
(* bar's data: buildSyntheticETFs, and then either rebalancePortfolio or    *)
(* updateWeights on every ETF                                               *)

\* the bars and trigger configurations the calls are made on: a window
\* ending on January 8 with the restructure set to any day of week 1 or of
\* week 2, and one ending on January 17 with the third Friday
ETFScenarios ==
    {[date |-> AddDays(StartDate, 7),
      cfg |-> [restr |-> [day |-> "*", week |-> 1], reb |-> [day |-> "*", week |-> 1]]],
     [date |-> AddDays(StartDate, 7),
      cfg |-> [restr |-> [day |-> "*", week |-> 2], reb |-> [day |-> "*", week |-> 1]]],
     [date |-> AddDays(StartDate, 16), cfg |-> DefaultTriggers]}

\* a sector file of one sector
OneSectorCsv == << <<"S1", "a">>, <<"S1", "b">> >>

\* the price columns of the window: any mix of 1, 2, a missing value and an
\* infinite one for ticker a, and fixed shapes for the other two
ETFPrices ==
    {[a |-> col, b |-> colb, c |-> colc] :
        col \in [1..MaxBars -> {FInt(1), FInt(2), NaN, Inf}],
        colb \in {Flat(FInt(1)), Ramp},
        colc \in {Flat(FInt(1)), Flat(FInt(2)), Saw}}

\* zipline_data.current: the price of the latest bar, 1 where the window
\* holds no number for it
LatestPrices(price) ==
    [t \in AllTickers |->
        LET last == ffill(bfill(price[t]))[MaxBars]
        IN IF isfinite(last) /\ last[1] > 0 /\ last[2] = 1 THEN last[1] ELSE 1]

InitETF ==
    /\ \E sc \in ETFScenarios : now = sc.date /\ config = sc.cfg
    /\ util = UtilitiesInit(config)
    /\ first_run = TRUE
    /\ pc = "build"
    /\ obs = NoObs
    /\ seen = [reb |-> NoneSeen, restr |-> NoneSeen, opt |-> <<>>]
    /\ can_trade = AllTickers
    /\ universe \in {validateSectorUniverse(UniverseInit(csv), can_trade) :
                        csv \in CsvFiles \cup {OneSectorCsv}}
    /\ \E price \in ETFPrices :
          data = [current |-> LatestPrices(price), history |-> History(now, price)]
    /\ synthetics = <<>>
    /\ port_w = <<>>
    /\ port_weights = <<>>
    /\ recorded = <<>>
    /\ calls = <<>>
    /\ halted = "no"

\* the context takes the values a call left in it
Leaves(c) ==
    /\ util' = c.util
    /\ universe' = c.universe
    /\ synthetics' = c.synthetics
    /\ port_w' = c.port_w
    /\ port_weights' = c.port_weights
    /\ recorded' = c.recorded
    /\ calls' = c.calls
    /\ halted' = c.halted

\* Backtest.buildSyntheticETFs(context, zipline_data)
ETFBuild ==
    /\ pc = "build"
    /\ LET c == buildSyntheticETFs(Context, config, [date |-> now, data |-> data])
       IN Leaves(c) /\ pc' = IF c.halted = "no" THEN "built" ELSE "done"
    /\ UNCHANGED <<now, config, first_run, obs, seen, can_trade, data>>

\* Backtest.rebalancePortfolio(context, zipline_data)
ETFRebalance ==
    /\ pc = "built"
    /\ \E c \in rebalancePortfolio(Context, config, [date |-> now, data |-> data]) :
          Leaves(c)
    /\ pc' = "done"
    /\ UNCHANGED <<now, config, first_run, obs, seen, can_trade, data>>

\* updateWeights(zipline_data) on every ETF, with the prices the constructors
\* were given
ETFUpdateWeights ==
    /\ pc = "built"
    /\ synthetics' = [l \in DOMAIN synthetics |->
                          updateWeights(synthetics[l], data.current)]
    /\ calls' = Append(calls,
                       [op |-> "updateWeights",
                        val |-> [prices |-> data.current,
                                 old |-> [l \in DOMAIN synthetics |->
                                             synthetics[l].alloc_weights],
                                 old_dict |-> [l \in DOMAIN synthetics |->
                                                  synthetics[l].alloc_weights_dict]]])
    /\ pc' = "done"
    /\ UNCHANGED <<now, config, util, first_run, obs, seen, universe, can_trade,
                   port_w, port_weights, recorded, halted, data>>

NextETF == ETFBuild \/ ETFRebalance \/ ETFUpdateWeights

SpecETF == InitETF /\ [][NextETF]_vars

-----------------------------------------------------------------------------
(* SpecBooks: the Bookkeeping methods called directly, cleanLog and then    *)
(* one of the two turnover logs, on arguments drawn at the start            *)

\* weight vectors of two entries, and prices, the logs are called with
BookWeights ==
    {<<Frac(1, 2), Frac(1, 2)>>, <<Frac(3, 5), Frac(2, 5)>>,
     <<Frac(1, 3), Frac(2, 3)>>, <<FInt(0), FInt(1)>>, <<FInt(1), FInt(0)>>}
BookPrices == {1, 2, 100}

\* the arguments of rebalanceLog
RebalanceLogCalls ==
    {[op |-> "rebalanceLog", old_weights |-> o, new_weights |-> n,
      new_prices |-> <<FInt(p), FInt(q)>>] :
        o \in BookWeights, n \in BookWeights, p \in BookPrices, q \in BookPrices}

\* the arguments of restructureLog: the component weights of the two
\* sectors before and after a restructure, and the bar's prices
RestructureLogCalls ==
    {[op |-> "restructureLog", old_weights |-> <<o, <<FInt(1)>> >>,
      new_weights |-> <<n, <<FInt(1)>> >>, px |-> px] :
        o \in BookWeights, n \in BookWeights, px \in [AllTickers -> BookPrices]}

\* context.synthetics as updateWeights left it: the ETFs hold the new weights
BookETFs(u, new_weights) ==
    [l \in Range(u.sector_labels) |->
        [ETFObject(l, u.sectors[l], DefaultTriggers)
            EXCEPT !.alloc_weights = new_weights[SectorIndex(u, l)],
                   !.alloc_weights_dict =
                       DictZip(u.sectors[l], new_weights[SectorIndex(u, l)])]]

InitBooks ==
    /\ now = StartDate
    /\ config = DefaultTriggers
    /\ util = UtilitiesInit(config)
    /\ first_run = FALSE
    /\ pc = "cleanLog"
    /\ obs = NoObs
    /\ seen = [reb |-> NoneSeen, restr |-> NoneSeen, opt |-> <<>>]
    /\ universe \in {UniverseInit(csv) : csv \in CsvFiles}
    /\ can_trade = AllTickers
    /\ data \in RebalanceLogCalls \cup RestructureLogCalls
    /\ synthetics = IF data.op = "restructureLog"
                    THEN BookETFs(universe, data.new_weights) ELSE <<>>
    /\ port_w = <<>>
    /\ port_weights = <<>>
    /\ recorded = <<>>
    /\ calls = <<>>
    /\ halted = "no"

\* context.books.cleanLog()
BooksCleanLog ==
    /\ pc = "cleanLog"
    /\ recorded' = cleanLog(recorded, universe)
    /\ calls' = Append(calls, [op |-> "cleanLog", val |-> "recorded"])
    /\ pc' = data.op
    /\ UNCHANGED <<now, config, util, first_run, obs, seen, universe, can_trade,
                   synthetics, port_w, port_weights, halted, data>>

\* context.books.rebalanceLog(old_weights=, new_weights=, new_prices=)
BooksRebalanceLog ==
    /\ pc = "rebalanceLog"
    /\ recorded' = rebalanceLog(recorded, universe, data.old_weights,
                                data.new_weights, data.new_prices)
    /\ calls' = Append(calls, [op |-> "rebalanceLog", val |-> "recorded"])
    /\ pc' = "done"
    /\ UNCHANGED <<now, config, util, first_run, obs, seen, universe, can_trade,
                   synthetics, port_w, port_weights, halted, data>>

\* context.books.restructureLog(context=, zipline_data=, old_weights=,
\* new_weights=)
BooksRestructureLog ==
    /\ pc = "restructureLog"
    /\ recorded' = restructureLog(
                       recorded, universe,
                       [i \in 1..Len(universe.sector_labels) |->
                           synthetics[universe.sector_labels[i]]],
                       data.px, data.old_weights, data.new_weights)
    /\ calls' = Append(calls, [op |-> "restructureLog", val |-> "recorded"])
    /\ pc' = "done"
    /\ UNCHANGED <<now, config, util, first_run, obs, seen, universe, can_trade,
                   synthetics, port_w, port_weights, halted, data>>

NextBooks == BooksCleanLog \/ BooksRebalanceLog \/ BooksRestructureLog

SpecBooks == InitBooks /\ [][NextBooks]_vars

-----------------------------------------------------------------------------
(* SpecTwin: two runs of the backtest side by side on the same universe,    *)
(* configuration and price data: each builds its synthetic ETFs and         *)
(* rebalances once; the second run's context is kept in data.twin           *)

\* the context zipline_initialize leaves
FreshContext(u, cfg) ==
    [first_run |-> TRUE, util |-> UtilitiesInit(cfg), universe |-> u,
     synthetics |-> <<>>, port_w |-> <<>>, port_weights |-> <<>>,
     recorded |-> <<>>, calls |-> <<>>, halted |-> "no"]

InitTwin ==
    /\ \E sc \in ETFScenarios : now = sc.date /\ config = sc.cfg
    /\ util = UtilitiesInit(config)
    /\ first_run = TRUE
    /\ pc = "build"
    /\ obs = NoObs
    /\ seen = [reb |-> NoneSeen, restr |-> NoneSeen, opt |-> <<>>]
    /\ can_trade = AllTickers
    /\ universe \in {validateSectorUniverse(UniverseInit(csv), can_trade) :
                        csv \in CsvFiles}
    /\ \E price \in ETFPrices :
          data = [current |-> LatestPrices(price), history |-> History(now, price),
                  twin |-> FreshContext(universe, config)]
    /\ synthetics = <<>>
    /\ port_w = <<>>
    /\ port_weights = <<>>
    /\ recorded = <<>>
    /\ calls = <<>>
    /\ halted = "no"

\* both runs call buildSyntheticETFs(context, zipline_data)
TwinBuild ==
    /\ pc = "build"
    /\ LET c == buildSyntheticETFs(Context, config, [date |-> now, data |-> data])
       IN Leaves(c) /\ pc' = IF c.halted = "no" THEN "built" ELSE "done"
    /\ data' = [data EXCEPT !.twin =
                    buildSyntheticETFs(@, config, [date |-> now, data |-> data])]
    /\ UNCHANGED <<now, config, first_run, obs, seen, can_trade>>

\* both runs call rebalancePortfolio(context, zipline_data), each with its
\* own draw of the optimizer's initial guess
TwinRebalance ==
    /\ pc = "built"
    /\ \E c \in rebalancePortfolio(Context, config, [date |-> now, data |-> data]) :
          Leaves(c)
    /\ \E c \in rebalancePortfolio(data.twin, config, [date |-> now, data |-> data]) :
          data' = [data EXCEPT !.twin = c]
    /\ pc' = "done"
    /\ UNCHANGED <<now, config, first_run, obs, seen, can_trade>>

NextTwin == TwinBuild \/ TwinRebalance

SpecTwin == InitTwin /\ [][NextTwin]_vars

-----------------------------------------------------------------------------
(* SpecUniverse: the Universe object built from a CSV file, then validated  *)
(* by validateSectorUniverse and/or handed to removeInvalidTicker directly  *)

\* the CSV files a universe is built from: the well-formed one, one that
\* repeats a row, one that repeats a row twice, one that lists a ticker in
\* two sectors
UniverseFiles ==
    CsvFiles \cup
    { << <<"S1", "a">>, <<"S1", "a">>, <<"S1", "b">>, <<"S2", "c">> >>,
      << <<"S1", "b">>, <<"S1", "a">>, <<"S1", "a">>, <<"S1", "a">>, <<"S2", "c">> >>,
      << <<"S1", "a">>, <<"S1", "b">>, <<"S2", "b">>, <<"S2", "c">> >> }

InitUniverse ==
    /\ now = StartDate
    /\ config = DefaultTriggers
    /\ util = UtilitiesInit(config)
    /\ first_run = TRUE
    /\ pc = "loaded"
    /\ obs = NoObs
    /\ seen = [reb |-> NoneSeen, restr |-> NoneSeen, opt |-> <<>>]
    /\ \E csv \in UniverseFiles :
          universe = UniverseInit(csv) /\ data = [csv |-> csv]
    /\ can_trade \in SUBSET AllTickers
    /\ synthetics = <<>>
    /\ port_w = <<>>
    /\ port_weights = <<>>
    /\ recorded = <<>>
    /\ calls = <<>>
    /\ halted = "no"

\* Backtest.validateSectorUniverse(config.sector_universe, zipline_data), the
\* first call made on the universe
UniverseValidate ==
    /\ pc = "loaded" /\ calls = <<>>
    /\ universe' = validateSectorUniverse(universe, can_trade)
    /\ calls' = Append(calls, [op |-> "validateSectorUniverse",
                               val |-> [before |-> universe]])
    /\ pc' = "validated"
    /\ UNCHANGED <<now, config, util, first_run, obs, seen, can_trade, synthetics,
                   port_w, port_weights, recorded, halted, data>>

\* Universe.removeInvalidTicker(invalid_ticker), called directly
UniverseRemove ==
    /\ Len(calls) < MaxCalls
    /\ \E t \in AllTickers :
          /\ universe' = removeInvalidTicker(universe, t)
          /\ calls' = Append(calls, [op |-> "removeInvalidTicker",
                                     val |-> [ticker |-> t, before |-> universe]])
    /\ UNCHANGED <<now, config, util, first_run, pc, obs, seen, can_trade,
                   synthetics, port_w, port_weights, recorded, halted, data>>

NextUniverse == UniverseValidate \/ UniverseRemove

SpecUniverse == InitUniverse /\ [][NextUniverse]_vars

-----------------------------------------------------------------------------
(* Claims about the scheduler, checked under SpecSched *)

EvaluatedReb == obs.call \in {"isRebalanceTriggered", "setInitialFlags"}
EvaluatedRestr == obs.call \in {"isRestructureTriggered", "setInitialFlags"}

\* C6: for a trigger spec with a concrete weekday, an evaluation returns true
\* if and only if the date's day-of-month lies in
\* [(week-1)*7+1, week*7] and the date's weekday name is the spec's day; for
\* week 3, 'Friday' it is true exactly on the Fridays (weekday 4) whose
\* day-of-month is in 15..21, on every date walked.
C6_ConcreteWeekdayIff ==
    /\ (EvaluatedRestr /\ config.restr.day # "*") =>
          (obs.restr <=> (InWindow(obs.date, config.restr.week)
                          /\ weekday_name(obs.date) = config.restr.day))
    /\ (EvaluatedReb /\ config.reb.day # "*") =>
          (obs.reb <=> (InWindow(obs.date, config.reb.week)
                        /\ weekday_name(obs.date) = config.reb.day))
    /\ (EvaluatedRestr /\ config.restr = [day |-> "Friday", week |-> 3]) =>
          (obs.restr <=> (obs.date.wd = 4 /\ obs.date.d \in 15..21))

\* a third Friday late in the walk: Friday 2020-12-18 triggers the restructure
C6_Witness ==
    /\ obs.call = "isRestructureTriggered"
    /\ config.restr = [day |-> "Friday", week |-> 3]
    /\ obs.date = [y |-> 2020, m |-> 12, d |-> 18, wd |-> 4]
    /\ obs.restr

\* C7: for the wildcard trigger of week 1, an evaluation returns true exactly
\* when its date is the first evaluated date of its calendar month with a
\* day-of-month in 1..7, so that a calendar month with such a date counts
\* exactly one true evaluation, however many days of the window are evaluated.
C7_WildcardOncePerMonth ==
    /\ (EvaluatedReb /\ config.reb = [day |-> "*", week |-> 1]) =>
          /\ obs.reb <=> obs.fresh_reb
          /\ seen.reb.ym # <<0, 0>> => seen.reb.n = 1
    /\ (EvaluatedRestr /\ config.restr = [day |-> "*", week |-> 1]) =>
          /\ obs.restr <=> obs.fresh_restr
          /\ seen.restr.ym # <<0, 0>> => seen.restr.n = 1

\* a later evaluation inside the window of a month that has fired returns false
C7_Witness ==
    /\ obs.call = "isRebalanceTriggered"
    /\ config.reb = [day |-> "*", week |-> 1]
    /\ obs.date.y = 2016 /\ obs.date.m = 3 /\ obs.date.d = 4
    /\ ~obs.reb /\ ~obs.fresh_reb
    /\ seen.reb = [ym |-> <<2016, 3>>, n |-> 1]

\* the condition under which an evaluation of a kind writes its last-fired month
WritesReb(o, cfg) ==
    /\ cfg.reb.day = "*"
    /\ InWindow(o.date, cfg.reb.week)
    /\ o.before.last_month_rebalance # o.date.m
WritesRestr(o, cfg) ==
    /\ cfg.restr.day = "*"
    /\ InWindow(o.date, cfg.restr.week)
    /\ o.before.last_month_restructure # o.date.m

\* C8: an evaluation changes the scheduler only when its spec's day is the
\* wildcard, the date is in the week window and the stored last-fired month of
\* its kind differs from the date's month; it then sets that kind's month to
\* the date's month, and nothing else, and returns true.  Every other
\* evaluation leaves the whole object as it was, and an evaluation of one
\* kind never changes the other kind's month.
C8_TriggerFrame ==
    /\ obs.call = "isRebalanceTriggered" =>
          IF WritesReb(obs, config)
          THEN /\ util = [obs.before EXCEPT !.last_month_rebalance = obs.date.m]
               /\ obs.reb
          ELSE util = obs.before
    /\ obs.call = "isRestructureTriggered" =>
          IF WritesRestr(obs, config)
          THEN /\ util = [obs.before EXCEPT !.last_month_restructure = obs.date.m]
               /\ obs.restr
          ELSE util = obs.before
    /\ obs.call = "setInitialFlags" =>
          /\ util.last_month_rebalance =
                IF WritesReb(obs, config) THEN obs.date.m
                ELSE obs.before.last_month_rebalance
          /\ util.last_month_restructure =
                IF WritesRestr(obs, config) THEN obs.date.m
                ELSE obs.before.last_month_restructure

\* a wildcard restructure evaluation that wrote its month, the rebalance month
\* being another one
C8_Witness ==
    /\ obs.call = "isRestructureTriggered"
    /\ WritesRestr(obs, config)
    /\ util.last_month_restructure = obs.date.m
    /\ util.last_month_rebalance # obs.date.m
    /\ util.last_month_rebalance # 0
    /\ obs.before.last_month_restructure # 0

-----------------------------------------------------------------------------
(* Claims about the per-bar handler, checked under Spec *)

Ops == [i \in 1..Len(calls) |-> calls[i].op]
Events(op) == {i \in 1..Len(calls) : calls[i].op = op}

\* the latest invocation took the first-run branch / the trigger logic
FirstRunBar == calls # <<>> /\ calls[1].op = "validateSectorUniverse"
SteadyBar == calls # <<>> /\ calls[1].op # "validateSectorUniverse"

FirstRunOps == <<"validateSectorUniverse", "buildSyntheticETFs", "computeWeights",
                 "updatePositions", "setInitialFlags">>

\* C1: the first invocation runs exactly the initialization path: universe
\* validation, one synthetic ETF per sector, one optimization, the initial
\* targets, the priming of the scheduler, first_run set to false; it runs no
\* trigger logic and records nothing.  first_run is true only before that
\* invocation (or when it raised, which ends the run), never after it, and
\* every later invocation runs the trigger logic only.
C1_FirstRunOnce ==
    /\ first_run => (calls = <<>> \/ (FirstRunBar /\ halted # "no"))
    /\ (FirstRunBar /\ halted = "no") =>
          /\ Ops = FirstRunOps
          /\ ~first_run
          /\ recorded = <<>>
          /\ DOMAIN synthetics = Range(universe.sector_labels)
          /\ obs.call = "setInitialFlags" /\ obs.date = now
    /\ SteadyBar =>
          /\ ~first_run
          /\ calls[1].op = "isRebalanceTriggered"
          /\ \A i \in 1..Len(calls) :
                calls[i].op \notin {"validateSectorUniverse", "buildSyntheticETFs",
                                    "setInitialFlags"}
    /\ obs.call = "setInitialFlags" => ~first_run

\* the first invocation has completed, on a universe it pruned
C1_Witness ==
    /\ FirstRunBar /\ halted = "no" /\ ~first_run
    /\ Ops = FirstRunOps
    /\ universe.invalid_tickers # {}

\* the order_target_percent calls of the latest updatePositions
LastOrders ==
    LET last == CHOOSE i \in Events("updatePositions") :
                    \A j \in Events("updatePositions") : j <= i
    IN calls[last].val.orders

\* price_i / sum of the sector's prices, from the bar's current prices
PriceShare(px, l, pos) ==
    Frac(px[universe.sectors[l][pos]],
         SumSeq([k \in 1..Len(universe.sectors[l]) |-> px[universe.sectors[l][k]]]))

\* C2: on a bar of the trigger logic where the restructure runs, the last
\* targets issued are the product of the portfolio weights of the most recent
\* rebalance and the allocation weights updateWeights computes from the bar's
\* prices; when the rebalance runs on the same bar it runs first (its targets
\* are issued on the allocation weights of before the restructure), and the
\* portfolio weights of the last targets are the ones it produced.
C2_RebalanceThenRestructure ==
    (SteadyBar /\ Events("updateWeights") # {}) =>
        LET uw == CHOOSE i \in Events("updateWeights") : TRUE
            W == seen.opt
        IN /\ \E j \in Events("updatePositions") : j > uw
           /\ \A k \in 1..Len(LastOrders) :
                 LET o == LastOrders[k]
                 IN o.target = FMul(W[SectorIndex(universe, o.sector)],
                                    PriceShare(calls[uw].val.prices, o.sector, o.pos))
           /\ \A cw \in Events("computeWeights") :
                 /\ cw < uw
                 /\ W = calls[cw].val.new
                 /\ calls[cw + 1].op = "updatePositions"
                 /\ calls[cw + 1].val.alloc = calls[uw].val.old

\* both ran on one bar, the rebalance changed the portfolio weights and the
\* restructure changed the allocation weights of the first sector
C2_Witness ==
    /\ SteadyBar
    /\ Events("updateWeights") # {} /\ Events("computeWeights") # {}
    /\ \E cw \in Events("computeWeights") : calls[cw].val.old # calls[cw].val.new
    /\ \E uw \in Events("updateWeights") :
          calls[uw].val.old["S1"] # synthetics["S1"].alloc_weights

\* C3 (as claimed): on every bar of the trigger logic where the rebalance
\* runs, PortfolioWeights become the optimizer's output, targets are issued
\* again, and the rebalance turnover of the old and the new weights, at the
\* ETF prices of the bar, is recorded: per sector and in total.
C3_RebalanceTurnoverRecorded ==
    \A i \in Events("computeWeights") :
        SteadyBar =>
            LET e == calls[i].val
                labels == universe.sector_labels
            IN /\ \E j \in Events("updatePositions") : j > i
               /\ \E px \in [AllTickers -> 1..MaxPrice] :
                     LET new_prices ==
                             [k \in 1..Len(labels) |->
                                 FDot([n \in 1..Len(universe.sectors[labels[k]]) |->
                                          FInt(px[universe.sectors[labels[k]][n]])],
                                      calls[i + 1].val.alloc[labels[k]])]
                         want == rebalanceLog(<<>>, universe, e.old, e.new, new_prices)
                     IN \A k \in DOMAIN want :
                           k \in DOMAIN recorded /\ recorded[k] = want[k]

\* C4 (as claimed): on every bar of the trigger logic where the restructure
\* runs, updateWeights is called on every ETF, targets are issued again, the
\* restructure turnover of the old and the new component weights is recorded,
\* and the invocation completes without raising.
C4_RestructureTurnoverRecorded ==
    \A i \in Events("updateWeights") :
        LET e == calls[i].val
            labels == universe.sector_labels
            want == restructureLog(
                        <<>>, universe,
                        [k \in 1..Len(labels) |-> synthetics[labels[k]]],
                        e.prices,
                        [k \in 1..Len(labels) |-> e.old[labels[k]]],
                        [k \in 1..Len(labels) |-> synthetics[labels[k]].alloc_weights])
        IN /\ halted = "no"
           /\ \E j \in Events("updatePositions") : j > i
           /\ \A k \in DOMAIN want : k \in DOMAIN recorded /\ recorded[k] = want[k]

\* C5: every target updatePositions issues for a ticker of a sector is the
\* portfolio weight of the sector times the allocation weight of the ticker,
\* as the two vectors were stored when updatePositions was called.
C5_TargetIsProduct ==
    \A i \in Events("updatePositions") :
        \A k \in 1..Len(calls[i].val.orders) :
            LET o == calls[i].val.orders[k]
            IN o.target = FMul(calls[i].val.port_w[SectorIndex(universe, o.sector)],
                               calls[i].val.alloc[o.sector][o.pos])

\* a target of 1/6: half of the portfolio in a sector, a third of the sector
\* in the ticker
C5_Witness ==
    \E i \in Events("updatePositions") :
        \E k \in 1..Len(calls[i].val.orders) :
            /\ calls[i].val.orders[k].target = <<1, 6>>
            /\ calls[i].val.port_w[1] = <<1, 2>>

\* C9: the first-run invocation evaluates both triggers once on the first
\* bar's date; a wildcard trigger whose week window holds that date returns
\* true there, and on no later bar of that calendar month: the month counts
\* one positive evaluation, the priming one.
C9_PrimedWildcard ==
    /\ (FirstRunBar /\ halted = "no") =>
          /\ Cardinality(Events("setInitialFlags")) = 1
          /\ obs.call = "setInitialFlags" /\ obs.date = now
    /\ (obs.call = "setInitialFlags" /\ config.reb.day = "*"
        /\ InWindow(obs.date, config.reb.week) /\ YM(now) = YM(obs.date)) =>
          /\ obs.reb
          /\ seen.reb = [ym |-> YM(obs.date), n |-> 1]
          /\ SteadyBar => \A i \in Events("isRebalanceTriggered") : ~calls[i].val
    /\ (obs.call = "setInitialFlags" /\ config.restr.day = "*"
        /\ InWindow(obs.date, config.restr.week) /\ YM(now) = YM(obs.date)) =>
          /\ obs.restr
          /\ seen.restr = [ym |-> YM(obs.date), n |-> 1]
          /\ SteadyBar => \A i \in Events("isRestructureTriggered") : ~calls[i].val

\* a later bar inside the week window of the primed wildcard restructure
\* trigger: the evaluation returns false
C9_Witness ==
    /\ SteadyBar
    /\ config.restr = [day |-> "*", week |-> 1]
    /\ now # obs.date /\ InWindow(now, 1) /\ InWindow(obs.date, 1)
    /\ \E i \in Events("isRestructureTriggered") : ~calls[i].val

\* C10 (as claimed): after every invocation each turnover field whose event
\* did not run on that bar is recorded as 0.
C10_UnfiredTurnoverZero ==
    calls # <<>> =>
        /\ (FirstRunBar \/ Events("computeWeights") = {}) =>
              \A k \in Range(port_rebal_turnover_labels(universe))
                       \cup Range(total_port_rebal_turnover_label) :
                  k \in DOMAIN recorded /\ recorded[k] = FInt(0)
        /\ Events("updateWeights") = {} =>
              \A k \in Range(etf_restr_turnover_labels(universe))
                       \cup Range(total_etf_restr_turnover_label) :
                  k \in DOMAIN recorded /\ recorded[k] = FInt(0)

-----------------------------------------------------------------------------
\* C11: the record of every completed step holds, for every sector, the
\* synthetic index price and the portfolio weight current at the step, and
\* every turnover field.  (The backtest never calls etfDataLog, so the
\* record holds the turnover fields only.)
C11_RecordHasIndexData ==
    (calls # <<>> /\ halted = "no") =>
        /\ Range(clean_labels(universe)) \subseteq DOMAIN recorded
        /\ Range(etf_price_labels(universe)) \subseteq DOMAIN recorded
        /\ \A l \in Range(universe.sector_labels) :
               /\ <<"etf_weight", l>> \in DOMAIN recorded
               /\ recorded[<<"etf_weight", l>>] = port_weights[l]

-----------------------------------------------------------------------------
\* a float that is a number between 0 and 1
InUnit(a) == a[2] > 0 /\ 0 <= a[1] /\ a[1] <= a[2]

\* C16 (as claimed): a solver run that did not converge is surfaced as an
\* error: the rebalance ends in an exception, its result does not become the
\* portfolio weights and no targets are issued after it.  (computeWeights
\* returns the x of the result without reading its success flag.)
C16_FailureSurfaced ==
    \A i \in Events("computeWeights") :
        ~calls[i].val.success =>
            /\ halted # "no"
            /\ port_w # calls[i].val.new
            /\ \A j \in Events("updatePositions") : j < i

\* C17 (as claimed): every vector computeWeights returns has one entry per
\* row of log returns, every entry between 0 and 1, and entries that sum to
\* 1; a call always returns.  (The x of a failed run is returned as it is,
\* and a single row raises IndexError.)
C17_WeightsFeasible ==
    /\ \A i \in Events("cov_mat.shape") : FALSE
    /\ \A i \in Events("computeWeights") :
          LET x == calls[i].val.new
          IN /\ Len(x) = Len(calls[i].val.log_rets)
             /\ \A k \in 1..Len(x) : InUnit(x[k])
             /\ FSum(x) = FInt(1)

\* C18: the allocation weights updateWeights leaves in an ETF with tickers
\* are one per ticker, entry i the current price of ticker i divided by the
\* sum of the ETF's current prices, none negative, summing to 1, and the
\* lookup maps every ticker to its entry.  (An ETF whose sector lost every
\* ticker has no prices and the empty vector.)
C18_AllocWeightsNormalised ==
    \A i \in Events("updateWeights") \cup Events("buildSyntheticETFs") :
        \A l \in DOMAIN synthetics :
            LET etf == synthetics[l]
                w == etf.alloc_weights
                prices == CurrentPrices(etf.tickers, calls[i].val.prices)
            IN etf.tickers # <<>> =>
                  /\ \A k \in 1..Len(prices) : prices[k] > 0
                  /\ Len(w) = Len(etf.tickers)
                  /\ \A k \in 1..Len(w) :
                        /\ w[k] = Frac(prices[k], SumSeq(prices))
                        /\ InUnit(w[k])
                        /\ etf.alloc_weights_dict[etf.tickers[k]] = w[k]
                  /\ FSum(w) = FInt(1)

\* a restructure on prices that differ inside the first sector left it with
\* unequal weights
C18_Witness ==
    /\ Events("updateWeights") # {}
    /\ Len(synthetics["S1"].tickers) = 2
    /\ synthetics["S1"].alloc_weights = <<Frac(1, 3), Frac(2, 3)>>

-----------------------------------------------------------------------------
(* Claims about the Bookkeeping logs, checked under SpecBooks *)

\* a direct call of the named log has returned
Logged(op) == pc = "done" /\ data.op = op

\* C12: the rebalance turnover recorded under the label of the sector in
\* position i is |new weight i - old weight i| times price i, and the
\* recorded total is the sum of these; old weights [0.5, 0.5], new weights
\* [0.6, 0.4] and price 100 give 10, 10 and the total 20.
C12_RebalanceTurnover ==
    Logged("rebalanceLog") =>
        LET labels == universe.sector_labels
            turnover == [i \in 1..Len(labels) |->
                            FMul(FAbsDiff(data.new_weights[i], data.old_weights[i]),
                                 data.new_prices[i])]
        IN /\ \A i \in 1..Len(labels) :
                 recorded[<<"port_rebal_turnover", labels[i]>>] = turnover[i]
           /\ recorded[<<"total_port_rebal_turnover">>] = FSum(turnover)
           /\ (/\ data.old_weights = <<Frac(1, 2), Frac(1, 2)>>
               /\ data.new_weights = <<Frac(3, 5), Frac(2, 5)>>
               /\ data.new_prices = <<FInt(100), FInt(100)>>) =>
                  /\ recorded[<<"port_rebal_turnover", "S1">>] = FInt(10)
                  /\ recorded[<<"port_rebal_turnover", "S2">>] = FInt(10)
                  /\ recorded[<<"total_port_rebal_turnover">>] = FInt(20)

\* the example of the claim was logged
C12_Witness ==
    /\ Logged("rebalanceLog")
    /\ data.old_weights = <<Frac(1, 2), Frac(1, 2)>>
    /\ data.new_weights = <<Frac(3, 5), Frac(2, 5)>>
    /\ data.new_prices = <<FInt(100), FInt(100)>>
    /\ recorded[<<"total_port_rebal_turnover">>] = FInt(20)

\* the index price of the ETF in position i on the bar's prices, on the
\* component weights w
IndexPrice(i, w) ==
    FDot([j \in 1..Len(universe.sectors[universe.sector_labels[i]]) |->
             FInt(data.px[universe.sectors[universe.sector_labels[i]][j]])], w[i])

\* C13 (as claimed): the restructure turnover recorded for a sector is the
\* sum of its components' |new weight - old weight| times the sector's
\* current index price (on the weights of after the restructure, or on
\* those of before it), and the recorded total is the sum of the sectors'
\* figures.
C13_TurnoverAtIndexPrice ==
    Logged("restructureLog") =>
        LET labels == universe.sector_labels
            delta == [i \in 1..Len(labels) |->
                         FSum([j \in 1..Len(data.new_weights[i]) |->
                                  FAbsDiff(data.new_weights[i][j],
                                           data.old_weights[i][j])])]
        IN /\ \A i \in 1..Len(labels) :
                 \/ recorded[<<"etf_restr_turnover", labels[i]>>]
                        = FMul(delta[i], IndexPrice(i, data.new_weights))
                 \/ recorded[<<"etf_restr_turnover", labels[i]>>]
                        = FMul(delta[i], IndexPrice(i, data.old_weights))
           /\ recorded[<<"total_etf_restr_turnover">>]
                 = FSum([i \in 1..Len(labels) |->
                            recorded[<<"etf_restr_turnover", labels[i]>>]])

\* C13 (amended): the restructure turnover recorded for a sector is the sum
\* over its components of |new weight - old weight| times the component's
\* current price, and the recorded total is the sum of the sectors' figures.
C13_TurnoverAtComponentPrices ==
    Logged("restructureLog") =>
        LET labels == universe.sector_labels
            turnover ==
                [i \in 1..Len(labels) |->
                    FSum([j \in 1..Len(data.new_weights[i]) |->
                             FMul(FAbsDiff(data.new_weights[i][j],
                                           data.old_weights[i][j]),
                                  FInt(data.px[universe.sectors[labels[i]][j]]))])]
        IN /\ \A i \in 1..Len(labels) :
                 recorded[<<"etf_restr_turnover", labels[i]>>] = turnover[i]
           /\ recorded[<<"total_etf_restr_turnover">>] = FSum(turnover)

\* a restructure from (1/2, 1/2) to (1/3, 2/3) at prices 1 and 2 was logged
\* with turnover 1/6 * 1 + 1/6 * 2
C13_Witness ==
    /\ Logged("restructureLog")
    /\ data.old_weights[1] = <<Frac(1, 2), Frac(1, 2)>>
    /\ data.new_weights[1] = <<Frac(1, 3), Frac(2, 3)>>
    /\ data.px["a"] = 1 /\ data.px["b"] = 2
    /\ recorded[<<"etf_restr_turnover", "S1">>] = Frac(1, 2)

-----------------------------------------------------------------------------
(* Claims about the synthetic ETFs and the optimizer, checked under SpecETF *)

\* the calls that log the walks of updateParameters, one walk per sector
WalkEvents == Events("buildSyntheticETFs") \cup Events("computeWeights")

\* the month the wildcard flag of a walk holds before bar i: the month of the
\* latest earlier bar in the week window, or what the walk started with
FlagBefore(wk, dates, i) ==
    LET inside == {j \in 1..(i - 1) : InWindow(dates[j], config.restr.week)}
    IN IF config.restr.day # "*" \/ inside = {}
       THEN wk.before.last_month_restructure
       ELSE dates[CHOOSE j \in inside : \A n \in inside : n <= j].m

\* the restructure trigger, evaluated on every bar in turn, is true at bar i
Fires(wk, dates, i) ==
    /\ InWindow(dates[i], config.restr.week)
    /\ IF config.restr.day = "*" THEN FlagBefore(wk, dates, i) # dates[i].m
       ELSE weekday_name(dates[i]) = config.restr.day

\* the latest reweight bar at or before bar i
LatestReweight(wk, dates, i) ==
    CHOOSE r \in 1..i :
        /\ r = 1 \/ Fires(wk, dates, r)
        /\ \A j \in (r + 1)..i : ~Fires(wk, dates, j)

\* C14: in every walk of updateParameters the reweight bars are bar 0 and
\* the bars at which the restructure trigger, evaluated on the bars' dates in
\* turn, is true; the index level of bar i is the dot product of bar i's
\* prices with the prices of the latest reweight bar at or before i divided
\* by their sum, so the level is not rebased where the weights change.
C14_WalkLevels ==
    \A e \in WalkEvents :
        \A k \in 1..Len(calls[e].val.walks) :
            LET wk == calls[e].val.walks[k]
                dates == data.history.dates
                rows == Rows(synthetics[universe.sector_labels[k]], data.history)
            IN /\ Len(wk.setf_prices) = Len(dates)
               /\ \A i \in 1..Len(dates) :
                     LET r == LatestReweight(wk, dates, i)
                         weights == [n \in 1..Len(rows[r]) |->
                                        FDiv(rows[r][n], RowSum(rows[r]))]
                     IN /\ wk.reweighted[i] <=> (i = 1 \/ Fires(wk, dates, i))
                        /\ wk.setf_prices[i] = FDot(weights, rows[i])

\* a constructor's walk of the first sector reweighted after bar 0, and the
\* level of that bar is not what the weights of bar 0 give
C14_Witness ==
    \E e \in Events("buildSyntheticETFs") :
        LET wk == calls[e].val.walks[1]
            rows == Rows(synthetics["S1"], data.history)
        IN \E i \in 2..Len(rows) :
              /\ wk.reweighted[i]
              /\ isfinite(wk.setf_prices[i])
              /\ wk.setf_prices[i]
                    # FDot([n \in 1..Len(rows[1]) |->
                               FDiv(rows[1][n], RowSum(rows[1]))], rows[i])

\* C15 (as claimed): updateParameters raises whenever a level of the series
\* is not a finite number, so no ETF ever holds a series with such a level,
\* nor log returns or a variance derived from one.  (Only nan is tested: an
\* infinite level passes.)
C15_NonFiniteLevelRaises ==
    \A l \in DOMAIN synthetics :
        \A i \in 1..Len(synthetics[l].setf_prices) :
            isfinite(synthetics[l].setf_prices[i])

\* C19: updateWeights called again on the prices the constructor called it
\* with leaves the weight vector and the ticker-to-weight lookup of every ETF
\* as the first call left them.
C19_UpdateWeightsIdempotent ==
    \A e \in Events("updateWeights") :
        \A b \in Events("buildSyntheticETFs") :
            calls[e].val.prices = calls[b].val.prices =>
                \A l \in DOMAIN synthetics :
                    /\ synthetics[l].alloc_weights = calls[e].val.old[l]
                    /\ synthetics[l].alloc_weights_dict = calls[e].val.old_dict[l]

\* the second call ran on an ETF of two tickers with different prices
C19_Witness ==
    /\ Events("updateWeights") # {} /\ Events("buildSyntheticETFs") # {}
    /\ Len(synthetics["S1"].alloc_weights) = 2
    /\ synthetics["S1"].alloc_weights[1] # synthetics["S1"].alloc_weights[2]

\* every price column of the window is one positive number throughout
FlatHistory ==
    \A t \in AllTickers :
        \A i \in 1..MaxBars :
            /\ data.history.price[t][i] = data.history.price[t][1]
            /\ isfinite(data.history.price[t][i])
            /\ data.history.price[t][i][1] > 0

\* C20 (as claimed): for two sectors whose prices are constant over the
\* window every log return is 0, the variance of each synthetic index is 0
\* and a converged optimizer returns [0.5, 0.5].  (The optimizer starts from
\* a random point and, the objective being 0 everywhere, returns it.)
C20_FlatGivesEqualWeights ==
    \A e \in Events("computeWeights") :
        (FlatHistory /\ Len(universe.sector_labels) = 2 /\ calls[e].val.success) =>
            /\ \A l \in DOMAIN synthetics :
                  /\ synthetics[l].variance = "zero"
                  /\ \A i \in 1..Len(synthetics[l].log_rets) :
                        synthetics[l].log_rets[i] = FInt(1)
            /\ calls[e].val.new = <<Frac(1, 2), Frac(1, 2)>>

-----------------------------------------------------------------------------
(* Claims about two runs on the same inputs, checked under SpecTwin *)

\* the targets a context's latest updatePositions issued
TargetsOf(cs) ==
    LET ups == {i \in 1..Len(cs) : cs[i].op = "updatePositions"}
    IN IF ups = {} THEN <<>>
       ELSE cs[CHOOSE i \in ups : \A j \in ups : j <= i].val.orders

\* every optimization logged in the calls converged
AllConverged(cs) ==
    \A i \in 1..Len(cs) : cs[i].op = "computeWeights" => cs[i].val.success

\* C21 (as claimed): two runs on the same universe, configuration and price
\* data bind the same portfolio weights and issue the same targets.  Stated
\* for the windows of constant prices with both optimizations converged,
\* where the result of a run is its own random initial guess.
C21_RunsAgree ==
    (pc = "done" /\ FlatHistory /\ halted = "no" /\ data.twin.halted = "no"
     /\ AllConverged(calls) /\ AllConverged(data.twin.calls)) =>
        /\ port_weights = data.twin.port_weights
        /\ TargetsOf(calls) = TargetsOf(data.twin.calls)

-----------------------------------------------------------------------------
(* Claims about the sector universe, checked under SpecUniverse *)

\* the list holds the ticker
Holds(lst, t) == \E i \in 1..Len(lst) : lst[i] = t

\* the list without the tickers that cannot be traded
Tradeable(lst) == LET Can(t) == t \in can_trade IN SelectSeq(lst, Can)

\* validateSectorUniverse was the only call on the universe
Validated == pc = "validated" /\ Len(calls) = 1

\* C22 (as claimed): after validation every ticker that cannot be resolved
\* or traded is in no sector's list and is in invalid_tickers with the label
\* of every sector that listed it, and every sector's list holds its other
\* tickers as before; the validation returns.  (A ticker two adjacent rows
\* of a sector name stays in the list once.)
C22_ValidationPrunes ==
    Validated =>
        LET before == calls[1].val.before
        IN /\ halted = "no"
           /\ \A l \in DOMAIN universe.sectors :
                 /\ universe.sectors[l] = Tradeable(before.sectors[l])
                 /\ \A t \in AllTickers \ can_trade :
                       /\ ~Holds(universe.sectors[l], t)
                       /\ Holds(before.sectors[l], t)
                              <=> <<t, l>> \in universe.invalid_tickers

\* the latest two calls were removeInvalidTicker with the same ticker
RemovedTwice ==
    /\ Len(calls) >= 2
    /\ calls[Len(calls)].op = "removeInvalidTicker"
    /\ calls[Len(calls) - 1].op = "removeInvalidTicker"
    /\ calls[Len(calls)].val.ticker = calls[Len(calls) - 1].val.ticker

\* C23 (as claimed): a second removeInvalidTicker call with the same ticker
\* leaves every sector's list and invalid_tickers as the first call left
\* them, whatever the universe holds.  (Of a ticker a sector lists several
\* times in a row the first call removes some entries and the second more.)
C23_RemoveIdempotent ==
    RemovedTwice => universe = calls[Len(calls)].val.before

-----------------------------------------------------------------------------
(* Claims about out-of-range trigger specs, checked under SpecWeeks *)

\* C24 (as claimed): a trigger spec whose week number is out of range ends
\* the run with an error: no trigger is ever evaluated under such a spec
\* with the run going on.  (Utilities.__init__ computes the window of any
\* week number, and the evaluations return false on every date.)
C24_OutOfRangeWeekRejected ==
    (obs.call # "none"
     /\ (~WeekInRange(config.restr.week) \/ ~WeekInRange(config.reb.week))) =>
        halted # "no"

-----------------------------------------------------------------------------
(* More claims about the synthetic ETFs, checked under SpecETF *)

\* the bars of the column after bar i / before bar i that hold a value
LaterValues(col, i) == {n \in (i + 1)..Len(col) : ~isnan(col[n])}
EarlierValues(col, i) == {n \in 1..(i - 1) : ~isnan(col[n])}

\* C25: the bars updateParameters walks hold, for every ticker, the price
\* column of the window with its missing bars filled backward first and
\* forward then: a bar with a value keeps it, a missing bar with a later
\* value takes the nearest later one, a missing bar after the last value
\* takes that last value, and a column with a value has no missing bar left.
C25_FillBackwardThenForward ==
    \A e \in WalkEvents :
        \A k \in 1..Len(calls[e].val.walks) :
            LET tickers == synthetics[universe.sector_labels[k]].tickers
                rows == calls[e].val.walks[k].rows
            IN \A j \in 1..Len(tickers) :
                  LET col == data.history.price[tickers[j]]
                  IN \A i \in 1..Len(col) :
                        LET later == LaterValues(col, i)
                            earlier == EarlierValues(col, i)
                        IN /\ ~isnan(col[i]) => rows[i][j] = col[i]
                           /\ (isnan(col[i]) /\ later # {}) =>
                                 rows[i][j] =
                                    col[CHOOSE n \in later : \A m \in later : n <= m]
                           /\ (isnan(col[i]) /\ later = {} /\ earlier # {}) =>
                                 rows[i][j] =
                                    col[CHOOSE n \in earlier : \A m \in earlier : m <= n]
                           /\ (later # {} \/ earlier # {}) => ~isnan(rows[i][j])

\* a constructor walked a window where ticker a has a gap between two
\* different prices: the gap took the later one
C25_Witness ==
    \E e \in Events("buildSyntheticETFs") :
        LET col == data.history.price["a"]
            rows == calls[e].val.walks[1].rows
        IN \E i \in 2..(Len(col) - 1) :
              /\ isnan(col[i]) /\ ~isnan(col[i - 1]) /\ ~isnan(col[i + 1])
              /\ col[i - 1] # col[i + 1]
              /\ rows[i][1] = col[i + 1]

-----------------------------------------------------------------------------
(* More claims about the per-bar handler, checked under Spec *)

\* the stored allocation weights of every ETF of the context's dictionary
AllocWeights(etfs) ==
    [l \in DOMAIN etfs |->
        [vector |-> etfs[l].alloc_weights, dict |-> etfs[l].alloc_weights_dict]]

C27_PortfolioWeightsFrame ==
    [][~first_run =>
          LET cws == {i \in 1..Len(calls') : calls'[i].op = "computeWeights"}
          IN /\ cws = {} => (port_w' = port_w /\ port_weights' = port_weights)
             /\ \A i \in cws :
                   /\ port_w' = calls'[i].val.new
                   /\ port_weights' = DictZip(universe.sector_labels,
                                              calls'[i].val.new)]_vars

\* a bar that restructured and did not rebalance, the portfolio holding
\* unequal sector weights: the allocation weights changed, the targets were
\* issued again
C27_Witness ==
    /\ SteadyBar
    /\ Events("computeWeights") = {}
    /\ port_w # <<>> /\ port_w[1] # port_w[2]
    /\ \E uw \in Events("updateWeights") :
          /\ calls[uw].val.old["S1"] # synthetics["S1"].alloc_weights
          /\ \E up \in Events("updatePositions") : up > uw

\* the calls of a sequence in which updateParameters raised
RaisedInUpdate(cs) == {i \in 1..Len(cs) : cs[i].op = "updateParameters"}

\* C28: when updateParameters raises during the rebalance of an invocation
\* after the first, the exception ends the invocation and the run:
\* PortfolioWeights and the allocation weights of every ETF are those of
\* before the invocation, the optimizer did not run and no target was
\* issued.
C28_RaiseAbortsRebalance ==
    [][(~first_run /\ RaisedInUpdate(calls') # {}) =>
          /\ halted' = "Exception"
          /\ calls'[Len(calls')].op = "updateParameters"
          /\ port_w' = port_w /\ port_weights' = port_weights
          /\ AllocWeights(synthetics') = AllocWeights(synthetics)
          /\ \A i \in 1..Len(calls') :
                calls'[i].op \notin {"computeWeights", "updatePositions"}]_vars

\* a rebalance of a later bar ended in the exception of updateParameters,
\* the portfolio keeping the unequal weights it had
C28_Witness ==
    /\ SteadyBar /\ halted = "Exception"
    /\ RaisedInUpdate(calls) # {}
    /\ \E i \in Events("isRebalanceTriggered") : calls[i].val
    /\ port_w # <<>> /\ port_w[1] # port_w[2]
    /\ port_weights = DictZip(universe.sector_labels, port_w)

\* a vector of floats between 0 and 1 that sum to 1
OnSimplex(x) == (\A k \in 1..Len(x) : InUnit(x[k])) /\ FSum(x) = FInt(1)

\* PortfolioWeights and the allocation weights of every ETF, as stored when
\* the i-th call of the invocation (an updatePositions) ran, are non-negative
\* and sum to 1
FullyAllocated(i) ==
    /\ Len(calls[i].val.port_w) = Len(universe.sector_labels)
    /\ OnSimplex(calls[i].val.port_w)
    /\ \A l \in DOMAIN calls[i].val.alloc : OnSimplex(calls[i].val.alloc[l])

C30_RowsPairedWithLabels ==
    \A cw \in Events("computeWeights") :
        LET e == calls[cw].val
            labels == universe.sector_labels
        IN /\ labels = <<"S1", "S2">>
           /\ Len(e.log_rets) = Len(labels) /\ Len(e.new) = Len(labels)
           /\ DOMAIN port_weights = Range(labels)
           /\ port_w = e.new
           /\ \A k \in 1..Len(labels) :
                 /\ e.log_rets[k] = synthetics[labels[k]].log_rets
                 /\ e.log_rets[k] = LogReturns(e.walks[k].setf_prices)
                 /\ \A i \in 1..Len(e.walks[k].rows) :
                       Len(e.walks[k].rows[i]) = Len(universe.sectors[labels[k]])
                 /\ port_weights[labels[k]] = e.new[k]

\* a rebalance after the first one, on ETFs whose log-return series differ,
\* gave the two sectors different weights
C30_Witness ==
    /\ SteadyBar /\ halted = "no"
    /\ \E cw \in Events("computeWeights") :
          /\ calls[cw].val.success
          /\ calls[cw].val.old # <<>>
          /\ calls[cw].val.log_rets[1] # calls[cw].val.log_rets[2]
          /\ port_weights["S1"] # port_weights["S2"]
          /\ port_weights["S1"] = calls[cw].val.new[1]

\* C31: the walks of updateParameters leave the orchestrator's Utilities
\* alone: over an invocation the last-fired months change only by the
\* orchestrator's own trigger evaluations (setInitialFlags at the end of the
\* first run, isRebalanceTriggered and isRestructureTriggered on the later
\* bars), and the live restructure trigger returns what it returns on the
\* state those evaluations left, whatever the walks of the same bar fired on.
C31_WalkLeavesSchedulerState ==
    [][LET reb == isRebalanceTriggered(util, config, now')
           restr == isRestructureTriggered(reb.util, config, now')
           restrs == {i \in 1..Len(calls') : calls'[i].op = "isRestructureTriggered"}
           flags == {i \in 1..Len(calls') : calls'[i].op = "setInitialFlags"}
       IN IF first_run
          THEN util' = IF flags # {} THEN setInitialFlags(util, config, now').util
                       ELSE util
          ELSE /\ util' = IF restrs # {} THEN restr.util ELSE reb.util
               /\ \A i \in restrs : calls'[i].val = restr.ret]_vars

\* a bar of a wildcard restructure week on which the rebalance's walk spent
\* the month's firing on the first ETF's own Utilities, and the live
\* restructure trigger fired afterwards
C31_Witness ==
    /\ SteadyBar
    /\ config.restr.day = "*"
    /\ \E cw \in Events("computeWeights") :
          /\ calls[cw].val.walks[1].before.last_month_restructure # now.m
          /\ synthetics["S1"].backtest_util.last_month_restructure = now.m
    /\ \E i \in Events("isRestructureTriggered") : calls[i].val
    /\ util.last_month_restructure = now.m

\* C32 (as claimed): with a wildcard restructure trigger the walk the
\* constructor makes and the walk the initial rebalance makes over the same
\* window, on the same ETF, recompute the weights at the same bars and build
\* the same index levels and log returns.
C32_RepeatedWalkAgrees ==
    (FirstRunBar /\ config.restr.day = "*") =>
        \A b \in Events("buildSyntheticETFs") : \A cw \in Events("computeWeights") :
            \A k \in 1..Len(universe.sector_labels) :
                LET first == calls[b].val.walks[k]
                    second == calls[cw].val.walks[k]
                IN first.rows = second.rows =>
                      /\ first.reweighted = second.reweighted
                      /\ first.setf_prices = second.setf_prices
                      /\ LogReturns(first.setf_prices) = LogReturns(second.setf_prices)

\* the sectors whose list holds ticker t
SectorsOf(t) ==
    {l \in Range(universe.sector_labels) : Holds(universe.sectors[l], t)}

\* C33 (as claimed): after construction from the sector file and after any
\* removeInvalidTicker or validateSectorUniverse calls, no ticker is in the
\* list of more than one sector.
C33_OneSectorPerTicker ==
    \A t \in AllTickers : Cardinality(SectorsOf(t)) <= 1

====
